---- MODULE Spec2Model ----
(***************************************************************************)
(* ConfluenceConverter (converter.ts) and its callers.                     *)
(*                                                                         *)
(* A JavaScript string is modelled as a sequence of atoms.  An atom is a   *)
(* TLA+ string holding one lexical unit of the text: a whole tag           *)
(* ("<p>", "</ac:structured-macro>"), a word ("Child"), or one character   *)
(* that a regular expression or a claim looks at on its own: "\n", " ",    *)
(* "\t", "#", "-", "\"", "\\", "<", ">", "&".  The text is the             *)
(* concatenation of its atoms.  Every regular expression of the source is  *)
(* an operator over atoms that matches where the expression matches on the *)
(* text, for texts whose tags are lexically complete.                      *)
(***************************************************************************)
EXTENDS Integers, Sequences, FiniteSets, TLC

(***************************************************************************)
(* String primitives of the JavaScript runtime.                            *)
(***************************************************************************)

\* \s restricted to the white space of the alphabet
IsWs(c) == c \in {" ", "\t", "\n"}

\* [ \t]
IsBlank(c) == c \in {" ", "\t"}

IsNl(c) == c = "\n"

IsHash(c) == c = "#"

RECURSIVE Flatten(_)
\* the concatenation of a sequence of strings
Flatten(ss) ==
    IF ss = <<>> THEN <<>> ELSE Head(ss) \o Flatten(Tail(ss))

RECURSIVE Join(_, _)
\* Array.prototype.join
Join(ss, sep) ==
    IF ss = <<>> THEN <<>>
    ELSE IF Len(ss) = 1 THEN ss[1]
    ELSE ss[1] \o sep \o Join(Tail(ss), sep)

\* the least index j >= i with j > Len(s) or Stop(s[j])
Scan(s, i, Stop(_)) ==
    LET f[j \in i..(Len(s) + 1)] ==
            IF j > Len(s) THEN j ELSE IF Stop(s[j]) THEN j ELSE f[j + 1]
    IN  f[i]

\* the greatest index j <= i with j = 0 or Stop(s[j])
ScanBack(s, i, Stop(_)) ==
    LET f[j \in 0..i] ==
            IF j = 0 THEN 0 ELSE IF Stop(s[j]) THEN j ELSE f[j - 1]
    IN  f[i]

\* the least index j >= i with s[j] = a, or 0 when there is none
IndexFrom(s, a, i) ==
    LET j == Scan(s, i, LAMBDA c : c = a)
    IN  IF j > Len(s) THEN 0 ELSE j

\* the least index j >= i where the pair a, b starts, or 0
PairFrom(s, a, b, i) ==
    LET f[j \in i..Len(s)] ==
            IF j >= Len(s) THEN 0
            ELSE IF s[j] = a /\ s[j + 1] = b THEN j ELSE f[j + 1]
    IN  IF i >= Len(s) THEN 0 ELSE f[i]

\* String.prototype.trim
Trim(s) ==
    SubSeq(s, Scan(s, 1, LAMBDA c : ~IsWs(c)),
              ScanBack(s, Len(s), LAMBDA c : ~IsWs(c)))

\* String.prototype.includes
Contains(s, sub) ==
    \E i \in 1..(Len(s) - Len(sub) + 1) : SubSeq(s, i, i + Len(sub) - 1) = sub

\* String.prototype.startsWith
StartsWith(s, pre) ==
    Len(s) >= Len(pre) /\ SubSeq(s, 1, Len(pre)) = pre

\* String.prototype.endsWith
EndsWith(s, suf) ==
    Len(s) >= Len(suf) /\ SubSeq(s, Len(s) - Len(suf) + 1, Len(s)) = suf

(***************************************************************************)
(* String.prototype.replace with a global regular expression.  Match(s, i) *)
(* is the index just after the match that starts at i, or 0 when the       *)
(* expression does not match there; no expression of the source matches    *)
(* the empty string.  The scan is leftmost, and it resumes after a match.  *)
(***************************************************************************)
ReplaceAll(s, Match(_, _), Repl(_, _, _)) ==
    LET f[i \in 1..(Len(s) + 1)] ==
            IF i > Len(s) THEN <<>>
            ELSE LET e == Match(s, i)
                 IN  IF e > i THEN Repl(s, i, e) \o f[e]
                     ELSE <<s[i]>> \o f[i + 1]
    IN  f[1]

\* the start indices of the matches ReplaceAll replaces, in document order
MatchStarts(s, Match(_, _)) ==
    LET f[i \in 1..(Len(s) + 1)] ==
            IF i > Len(s) THEN <<>>
            ELSE LET e == Match(s, i)
                 IN  IF e > i THEN <<i>> \o f[e] ELSE f[i + 1]
    IN  f[1]

(***************************************************************************)
(* The atoms of Confluence storage format.                                 *)
(***************************************************************************)

\* the macro names of the alphabet; "INFO" exercises the i flag
MacroNames ==
    {"code", "noformat", "info", "note", "warning", "tip", "expand", "jira",
     "anchor", "toc", "children", "INFO"}

ParamNames == {"language", "title", "key", "", "jqlQuery"}

MOpen(n) == "<ac:structured-macro ac:name=\"" \o n \o "\">"

MClose == "</ac:structured-macro>"

POpen(k) == "<ac:parameter ac:name=\"" \o k \o "\">"

PClose == "</ac:parameter>"

PtbOpen == "<ac:plain-text-body>"

CdataOpen == "<![CDATA["

CdataClose == "]]>"

PtbClose == "</ac:plain-text-body>"

RtbOpen == "<ac:rich-text-body>"

RtbClose == "</ac:rich-text-body>"

MacroOpenAtoms == {MOpen(n) : n \in MacroNames}

\* the value of the ac:name attribute of a macro's opening tag
NameOf(a) == CHOOSE n \in MacroNames : MOpen(n) = a

\* what the i flag makes of a name
LowerName(n) == IF n = "INFO" THEN "info" ELSE n

\* String.prototype.toUpperCase on a panel type
UpperName(n) ==
    CASE n = "info" -> "INFO"
      [] n = "note" -> "NOTE"
      [] n = "warning" -> "WARNING"
      [] n = "tip" -> "TIP"

\* <ac:structured-macro[^>]*ac:name="nm"[^>]*> with the i flag
IsMacroOpen(a, nm) == a \in MacroOpenAtoms /\ LowerName(NameOf(a)) = nm

\* <ac:...> and </ac:...>
AcTags ==
    MacroOpenAtoms \cup {POpen(k) : k \in ParamNames}
        \cup {MClose, PClose, PtbOpen, PtbClose, RtbOpen, RtbClose,
              "<ac:link>", "</ac:link>"}

\* <ac:.../>
AcSelfClosing == {"<ac:emoticon ac:name=\"smile\"/>"}

\* <ri:...> and </ri:...>
RiTags == {"<ri:user ri:userkey=\"u1\">", "</ri:user>"}

\* <ri:.../>
RiSelfClosing == {"<ri:page ri:content-title=\"Home\"/>"}

(***************************************************************************)
(* escapeHtml: each "&", "<", ">" of the text.  Inside a code body the     *)
(* alphabet holds these three as atoms of their own.                       *)
(***************************************************************************)
EscapeAtom(c) ==
    CASE c = "&" -> "&amp;"
      [] c = "<" -> "&lt;"
      [] c = ">" -> "&gt;"
      [] OTHER -> c

\* the tags that stand as text in a plain-text body of the model, and what
\* is written between their "<" and ">"
TagsAsText == {POpen("language"), PClose}

Inner(a) ==
    IF a = PClose THEN "/ac:parameter" ELSE "ac:parameter ac:name=\"language\""

\* the three replace calls on one atom: a character, a word, or a tag
EscapeText(a) ==
    IF a \in TagsAsText THEN <<"&lt;", Inner(a), "&gt;">> ELSE <<EscapeAtom(a)>>

escapeHtml(text) == Flatten([i \in 1..Len(text) |-> EscapeText(text[i])])

(***************************************************************************)
(* preprocessMacros.  The lazy [\s\S]*? before a literal stops at the      *)
(* first occurrence of the literal from which the rest of the expression   *)
(* can still match; the rest needs only later literals, so that is the     *)
(* first occurrence whenever a match exists at all.                        *)
(***************************************************************************)

\* code and noformat: open tag, first CDATA body after it, first close tag
\* after that body
PlainBodyMatch(s, i, nm) ==
    IF ~IsMacroOpen(s[i], nm) THEN 0
    ELSE LET j == PairFrom(s, PtbOpen, CdataOpen, i + 1)
             k == IF j = 0 THEN 0 ELSE PairFrom(s, CdataClose, PtbClose, j + 2)
             l == IF k = 0 THEN 0 ELSE IndexFrom(s, MClose, k + 2)
         IN  IF l = 0 THEN 0 ELSE l + 1

\* the capture group of the code and noformat rules
PlainBody(m) ==
    LET j == PairFrom(m, PtbOpen, CdataOpen, 2)
        k == PairFrom(m, CdataClose, PtbClose, j + 2)
    IN  SubSeq(m, j + 2, k - 1)

\* m.match(/<ac:parameter ac:name="p">([\s\S]*?)<\/ac:parameter>/i):
\* <<TRUE, group 1>>, or <<FALSE, <<>>>> for null
ParamMatch(m, p) ==
    LET a == IndexFrom(m, POpen(p), 1)
        b == IF a = 0 THEN 0 ELSE IndexFrom(m, PClose, a + 1)
    IN  IF b = 0 THEN <<FALSE, <<>>>> ELSE <<TRUE, SubSeq(m, a + 1, b - 1)>>

\* content.match(/<ac:rich-text-body>([\s\S]*?)<\/ac:rich-text-body>/i)
RichBodyMatch(m) ==
    LET a == IndexFrom(m, RtbOpen, 1)
        b == IF a = 0 THEN 0 ELSE IndexFrom(m, RtbClose, a + 1)
    IN  IF b = 0 THEN <<FALSE, <<>>>> ELSE <<TRUE, SubSeq(m, a + 1, b - 1)>>

\* what reading a group of a null match raises
TypeError == "TypeError: Cannot read properties of null (reading '1')"

\* match[1]
Group1(match) == IF match[1] THEN match[2] ELSE <<TypeError>>

CodeLangUnguarded(langMatch) == Trim(Group1(langMatch))

\* langMatch ? langMatch[1].trim() : ""
CodeLang(langMatch) == IF langMatch[1] THEN Trim(Group1(langMatch)) ELSE <<>>

CodeRepl(s, i, e) ==
    LET m == SubSeq(s, i, e - 1)
        lang == CodeLang(ParamMatch(m, "language"))
    IN  <<"<pre>", "<code class=\"language-">> \o lang \o <<"\">">>
            \o escapeHtml(PlainBody(m)) \o <<"</code>", "</pre>">>

NoformatRepl(s, i, e) ==
    <<"<pre>", "<code>">> \o escapeHtml(PlainBody(SubSeq(s, i, e - 1)))
        \o <<"</code>", "</pre>">>

\* panels, expand and the fallback: open tag, then the first close tag
WholeMatch(s, i, nm) ==
    IF ~IsMacroOpen(s[i], nm) THEN 0
    ELSE LET l == IndexFrom(s, MClose, i + 1)
         IN  IF l = 0 THEN 0 ELSE l + 1

PanelEmoji(panelType) ==
    CASE panelType = "info" -> "i"
      [] panelType = "note" -> "!"
      [] panelType = "warning" -> "!!"
      [] OTHER -> "*"

PanelRepl(s, i, e, panelType) ==
    LET content == SubSeq(s, i + 1, e - 2)
        bodyMatch == RichBodyMatch(content)
        body == IF bodyMatch[1] THEN Group1(bodyMatch) ELSE content
    IN  <<"<blockquote>", "<p>", "<strong>",
          "[" \o PanelEmoji(panelType) \o "]", " ",
          UpperName(panelType) \o ":", "</strong>", "</p>">>
            \o body \o <<"</blockquote>">>

PanelPass(html, panelType) ==
    ReplaceAll(html, LAMBDA s, i : WholeMatch(s, i, panelType),
               LAMBDA s, i, e : PanelRepl(s, i, e, panelType))

ExpandRepl(s, i, e) ==
    LET content == SubSeq(s, i + 1, e - 2)
        titleMatch == ParamMatch(content, "title")
        bodyMatch == RichBodyMatch(content)
        title == IF titleMatch[1] THEN Trim(Group1(titleMatch))
                 ELSE <<"Details">>
        body == IF bodyMatch[1] THEN Group1(bodyMatch) ELSE <<>>
    IN  <<"<details>", "<summary>">> \o title \o <<"</summary>">> \o body
            \o <<"</details>">>

\* jira and anchor: open tag, first parameter p after it, the first
\* parameter close after that, the first macro close after that
ParamMacroMatch(s, i, nm, p) ==
    IF ~IsMacroOpen(s[i], nm) THEN 0
    ELSE LET j == IndexFrom(s, POpen(p), i + 1)
             k == IF j = 0 THEN 0 ELSE IndexFrom(s, PClose, j + 1)
             l == IF k = 0 THEN 0 ELSE IndexFrom(s, MClose, k + 1)
         IN  IF l = 0 THEN 0 ELSE l + 1

\* the capture group of the jira and anchor rules
ParamValue(m, p) ==
    LET j == IndexFrom(m, POpen(p), 2)
        k == IndexFrom(m, PClose, j + 1)
    IN  SubSeq(m, j + 1, k - 1)

JiraRepl(s, i, e) ==
    <<"<code>">> \o Trim(ParamValue(SubSeq(s, i, e - 1), "key")) \o <<"</code>">>

AnchorRepl(s, i, e) ==
    <<"<a id=\"">> \o Trim(ParamValue(SubSeq(s, i, e - 1), "")) \o <<"\">", "</a>">>

\* the fallback rule matches an opening tag of any name
AnyMacroMatch(s, i) ==
    IF s[i] \notin MacroOpenAtoms THEN 0
    ELSE LET l == IndexFrom(s, MClose, i + 1)
         IN  IF l = 0 THEN 0 ELSE l + 1

CommentOpen == "<!-- Unsupported Confluence macro: "

CommentClose == " -->"

UnsupportedRepl(s, i, e) == <<CommentOpen, NameOf(s[i]), CommentClose>>

UnsupportedWarning(name) == "Unsupported macro removed: " \o name

\* the four clean-up replaces of ac: and ri: tags
StripVendorTags(html) ==
    LET h1 == SelectSeq(html, LAMBDA a : a \notin AcSelfClosing)
        h2 == SelectSeq(h1, LAMBDA a : a \notin AcTags)
        h3 == SelectSeq(h2, LAMBDA a : a \notin RiSelfClosing)
    IN  SelectSeq(h3, LAMBDA a : a \notin RiTags)

CodePass(html) ==
    ReplaceAll(html, LAMBDA s, i : PlainBodyMatch(s, i, "code"), CodeRepl)

NoformatPass(html) ==
    ReplaceAll(html, LAMBDA s, i : PlainBodyMatch(s, i, "noformat"), NoformatRepl)

\* for (const panelType of ["info", "note", "warning", "tip"])
PanelPasses(html) ==
    PanelPass(PanelPass(PanelPass(PanelPass(html, "info"), "note"), "warning"),
              "tip")

ExpandPass(html) ==
    ReplaceAll(html, LAMBDA s, i : WholeMatch(s, i, "expand"), ExpandRepl)

JiraPass(html) ==
    ReplaceAll(html, LAMBDA s, i : ParamMacroMatch(s, i, "jira", "key"), JiraRepl)

AnchorPass(html) ==
    ReplaceAll(html, LAMBDA s, i : ParamMacroMatch(s, i, "anchor", ""), AnchorRepl)

\* the html before the fallback rule runs
BeforeFallback(html) ==
    AnchorPass(JiraPass(ExpandPass(PanelPasses(NoformatPass(CodePass(html))))))

\* the warnings the fallback callback pushes, one per match
FallbackWarnings(html, starts) ==
    [n \in 1..Len(starts) |-> UnsupportedWarning(NameOf(html[starts[n]]))]

\* the fallback rule, the tag clean-up and the return statement
Fallback(html) ==
    [html |-> StripVendorTags(ReplaceAll(html, AnyMacroMatch, UnsupportedRepl)),
     warnings |-> FallbackWarnings(html, MatchStarts(html, AnyMacroMatch))]

preprocessMacros(html) == Fallback(BeforeFallback(html))

(***************************************************************************)
(* cleanHtml                                                               *)
(***************************************************************************)

\* <br\s*\/?>
IsBr(a) == a \in {"<br>", "<br/>", "<br />"}

\* <td[^>]*>
IsTdOpen(a) == a \in {"<td>", "<td class=\"confluenceTd\">"}

\* <div class="confluence-information-macro[^"]*"[^>]*>
IsInfoDiv(a) ==
    a \in {"<div class=\"confluence-information-macro\">",
           "<div class=\"confluence-information-macro-note\">"}

NotWs(c) == ~IsWs(c)

\* the index just after \s*<br\s*\/?>\s* read from i, or 0
BrRun(s, i) ==
    LET p == Scan(s, i, NotWs)
    IN  IF p <= Len(s) /\ IsBr(s[p]) THEN Scan(s, p + 1, NotWs) ELSE 0

\* <td[^>]*>\s*<br\s*\/?>\s*
TdBrMatch(s, i) == IF IsTdOpen(s[i]) THEN BrRun(s, i + 1) ELSE 0

\* \s*<br\s*\/?>\s*<\/td>
BrTdMatch(s, i) ==
    LET q == BrRun(s, i)
    IN  IF q > 0 /\ q <= Len(s) /\ s[q] = "</td>" THEN q + 1 ELSE 0

\* <p>\s*<\/p>
EmptyParaMatch(s, i) ==
    IF s[i] # "<p>" THEN 0
    ELSE LET q == Scan(s, i + 1, NotWs)
         IN  IF q <= Len(s) /\ s[q] = "</p>" THEN q + 1 ELSE 0

\* <p>\s*<br\s*\/?>\s*<\/p>
BrParaMatch(s, i) ==
    IF s[i] # "<p>" THEN 0
    ELSE LET q == BrRun(s, i + 1)
         IN  IF q > 0 /\ q <= Len(s) /\ s[q] = "</p>" THEN q + 1 ELSE 0

cleanHtml(html) ==
    LET h1 == [i \in 1..Len(html) |->
                  IF IsInfoDiv(html[i]) THEN "<div>" ELSE html[i]]
        h2 == ReplaceAll(h1, TdBrMatch, LAMBDA s, i, e : <<"<td>">>)
        h3 == ReplaceAll(h2, BrTdMatch, LAMBDA s, i, e : <<"</td>">>)
        h4 == ReplaceAll(h3, EmptyParaMatch, LAMBDA s, i, e : <<>>)
    IN  ReplaceAll(h4, BrParaMatch, LAMBDA s, i, e : <<>>)

(***************************************************************************)
(* postProcess                                                             *)
(***************************************************************************)

\* /[ \t]+$/gm
TrailingBlanksMatch(s, i) ==
    IF ~IsBlank(s[i]) THEN 0
    ELSE LET e == Scan(s, i, LAMBDA c : ~IsBlank(c))
         IN  IF e > Len(s) \/ s[e] = "\n" THEN e ELSE 0

\* /\n[ \t]*\n/g
BlankLineMatch(s, i) ==
    IF s[i] # "\n" THEN 0
    ELSE LET e == Scan(s, i + 1, LAMBDA c : ~IsBlank(c))
         IN  IF e <= Len(s) /\ s[e] = "\n" THEN e + 1 ELSE 0

\* /\n{3,}/g
ManyNewlinesMatch(s, i) ==
    IF s[i] # "\n" THEN 0
    ELSE LET e == Scan(s, i, LAMBDA c : c # "\n")
         IN  IF e - i >= 3 THEN e ELSE 0

\* #{1,6}\s read from i: the index just after it, or 0.  The run of "#"
\* must end within six atoms and white space must follow it.
HashesWs(s, i) ==
    LET h == Scan(s, i, LAMBDA c : c # "#")
    IN  IF h > i /\ h - i <= 6 /\ h <= Len(s) /\ IsWs(s[h]) THEN h + 1 ELSE 0

\* /([^\n])\n(#{1,6}\s)/g
BeforeHeaderMatch(s, i) ==
    IF s[i] = "\n" \/ i + 1 > Len(s) THEN 0
    ELSE IF s[i + 1] # "\n" THEN 0
    ELSE HashesWs(s, i + 2)

\* "$1\n\n$2"
BeforeHeaderRepl(s, i, e) == <<s[i], "\n", "\n">> \o SubSeq(s, i + 2, e - 1)

\* /(#{1,6}\s[^\n]+)\n([^\n#])/g
AfterHeaderMatch(s, i) ==
    LET p == HashesWs(s, i)
        q == IF p = 0 THEN 0 ELSE Scan(s, p, LAMBDA c : c = "\n")
    IN  IF p > 0 /\ q > p /\ q + 1 <= Len(s) /\ s[q + 1] \notin {"\n", "#"}
        THEN q + 2 ELSE 0

\* "$1\n\n$2"
AfterHeaderRepl(s, i, e) ==
    SubSeq(s, i, e - 3) \o <<"\n", "\n", s[e - 1]>>

postProcess(markdown) ==
    LET m1 == ReplaceAll(markdown, TrailingBlanksMatch, LAMBDA s, i, e : <<>>)
        m2 == ReplaceAll(m1, BlankLineMatch, LAMBDA s, i, e : <<"\n", "\n">>)
        m3 == ReplaceAll(m2, ManyNewlinesMatch, LAMBDA s, i, e : <<"\n", "\n">>)
        m4 == ReplaceAll(m3, BeforeHeaderMatch, BeforeHeaderRepl)
    IN  ReplaceAll(m4, AfterHeaderMatch, AfterHeaderRepl)

(***************************************************************************)
(* addFrontMatter and buildChildrenSection                                 *)
(***************************************************************************)

EscapeQuotesOnce(title) ==
    LET q == IndexFrom(title, "\"", 1)
    IN  IF q = 0 THEN title
        ELSE SubSeq(title, 1, q - 1) \o <<"\\", "\"">>
                 \o SubSeq(title, q + 1, Len(title))

\* title.replace(/"/g, '\\"')
EscapeQuotes(title) ==
    Flatten([i \in 1..Len(title) |->
                IF title[i] = "\"" THEN <<"\\", "\"">> ELSE <<title[i]>>])

\* the template "${l}"
Quoted(l) == <<"\"">> \o l \o <<"\"">>

LabelsLine(labels) ==
    <<"labels", ":", " ", "[">>
        \o Join([i \in 1..Len(labels) |-> Quoted(labels[i])], <<",", " ">>)
        \o <<"]">>

Dashes == <<"-", "-", "-">>

addFrontMatterTwoBlank(page) ==
    LET lines == <<Dashes,
                   <<"title", ":", " ">> \o Quoted(EscapeQuotes(page.title)),
                   <<"page_id", ":", " ">> \o Quoted(page.id),
                   <<"space", ":", " ">> \o Quoted(page.spaceKey)>>
                 \o (IF Len(page.labels) > 0
                     THEN <<LabelsLine(page.labels)>> ELSE <<>>)
                 \o <<<<"source", ":", " ">> \o Quoted(page.url)>>
                 \o <<Dashes, <<>>, <<>>, <<>>>>
    IN  Join(lines, <<"\n">>)

addFrontMatter(page) ==
    LET lines == <<Dashes,
                   <<"title", ":", " ">> \o Quoted(EscapeQuotes(page.title)),
                   <<"page_id", ":", " ">> \o Quoted(page.id),
                   <<"space", ":", " ">> \o Quoted(page.spaceKey)>>
                 \o (IF Len(page.labels) > 0
                     THEN <<LabelsLine(page.labels)>> ELSE <<>>)
                 \o <<<<"source", ":", " ">> \o Quoted(page.url)>>
                 \o <<Dashes, <<>>, <<>>>>
    IN  Join(lines, <<"\n">>)

ChildPagesHeading == <<"#", "#", " ", "Child", " ", "Pages">>

\* the template - ${child.title} (ID: ${child.id})
ChildLine(child) ==
    <<"-", " ">> \o child.title \o <<" ", "(ID:", " ">> \o child.id \o <<")">>

buildChildrenSectionFirst(children) ==
    <<"\n", "\n">> \o Dashes \o <<"\n", "\n">> \o ChildPagesHeading
        \o <<"\n", "\n">> \o ChildLine(children[1]) \o <<"\n">>

buildChildrenSection(children) ==
    LET lines == <<<<"\n", "\n">> \o Dashes \o <<"\n", "\n">>
                       \o ChildPagesHeading \o <<"\n">>>>
                 \o [i \in 1..Len(children) |-> ChildLine(children[i])]
                 \o <<<<>>>>
    IN  Join(lines, <<"\n">>)

(***************************************************************************)
(* TurndownService.turndown, as configured by the constructor (atx         *)
(* headings, fenced code blocks), on the HTML this model feeds it:         *)
(* paragraphs, headings, line breaks, inline code, pre/code blocks,        *)
(* blockquotes, comments, tags turndown has no rule for, and text made of  *)
(* words and white space.  Every replacement is joined to the output so    *)
(* far by turndown's join, and the result is trimmed as turndown's own     *)
(* post-processing trims it.                                               *)
(***************************************************************************)

\* the number of "\n" atoms at the end of s
TrailingNewlines(s) == Len(s) - ScanBack(s, Len(s), LAMBDA c : c # "\n")

\* the number of "\n" atoms at the start of s
LeadingNewlines(s) == Scan(s, 1, LAMBDA c : c # "\n") - 1

Max(a, b) == IF a >= b THEN a ELSE b

Min(a, b) == IF a <= b THEN a ELSE b

\* turndown's join(output, replacement): at most two "\n" between the two
TdJoin(output, replacement) ==
    LET t1 == TrailingNewlines(output)
        t2 == LeadingNewlines(replacement)
        nls == Min(Max(t1, t2), 2)
    IN  SubSeq(output, 1, Len(output) - t1)
            \o [i \in 1..nls |-> "\n"]
            \o SubSeq(replacement, t2 + 1, Len(replacement))

\* s without the blanks at its end
StripTrailingBlanks(s) ==
    SubSeq(s, 1, ScanBack(s, Len(s), LAMBDA c : ~IsBlank(c)))

\* elements turndown treats as blocks and has no rule of its own for, and
\* the paragraph, whose rule surrounds the content with blank lines too
BlockTags ==
    {"<p>", "</p>", "<div>", "</div>", "<details>", "</details>",
     "<summary>", "</summary>"}

HeadingOpen == {"<h1>", "<h2>", "<h3>"}

HeadingClose(a) ==
    CASE a = "<h1>" -> "</h1>" [] a = "<h2>" -> "</h2>" [] a = "<h3>" -> "</h3>"

HeadingHashes(a) ==
    CASE a = "<h1>" -> <<"#">>
      [] a = "<h2>" -> <<"#", "#">>
      [] a = "<h3>" -> <<"#", "#", "#">>

\* U+0060, the one character a TLA+ string cannot hold
Tick == "{backtick}"

\* the code fence, three of them
Fence == "{backtick}{backtick}{backtick}"

\* turndown's escape of a text node, on the atoms of the alphabet
TdEscape(a) ==
    CASE a = "[i]" -> "\\[i\\]"
      [] a = "[!]" -> "\\[!\\]"
      [] a = "[!!]" -> "\\[!!\\]"
      [] a = "[*]" -> "\\[\\*\\]"
      [] a = "*" -> "\\*"
      [] a = "_" -> "\\_"
      [] a = Tick -> "\\" \o Tick
      [] a = "\\" -> "\\\\"
      [] OTHER -> a

\* the text of an element: character references decoded
TdUnescape(a) ==
    CASE a = "&amp;" -> "&"
      [] a = "&lt;" -> "<"
      [] a = "&gt;" -> ">"
      [] OTHER -> a

\* the index of the first atom close after i, or Len(s) + 1: an element
\* left open extends to the end of its parent
CloseOf(s, close, i) == Scan(s, i + 1, LAMBDA c : c = close)

\* each line of content prefixed with "> "
RECURSIVE QuoteLines(_)
QuoteLines(content) ==
    LET e == Scan(content, 1, LAMBDA c : c = "\n")
    IN  <<">", " ">> \o SubSeq(content, 1, e - 1)
            \o (IF e > Len(content) THEN <<>>
                ELSE <<"\n">> \o QuoteLines(SubSeq(content, e + 1, Len(content))))

\* s without the "\n" atoms at its two ends
StripNewlines(s) ==
    SubSeq(s, LeadingNewlines(s) + 1, Len(s) - TrailingNewlines(s))

RECURSIVE TdProcess(_, _, _)
\* the output of turndown's process for the atoms of s from i on, joined
\* to out
TdProcess(s, i, out) ==
    IF i > Len(s) THEN out
    ELSE LET a == s[i]
         IN  CASE a \in {CommentOpen, CdataOpen} ->
                    \* a comment node has no replacement
                    LET c == CloseOf(s, IF a = CommentOpen THEN CommentClose
                                        ELSE CdataClose, i)
                    IN  TdProcess(s, c + 1, out)
               [] a = "<a id=\"" ->
                    \* an anchor without content is a blank inline element
                    TdProcess(s, CloseOf(s, "\">", i) + 1, out)
               [] a \in BlockTags ->
                    TdProcess(s, i + 1,
                              TdJoin(StripTrailingBlanks(out), <<"\n", "\n">>))
               [] a \in HeadingOpen ->
                    LET c == CloseOf(s, HeadingClose(a), i)
                        content == Trim(TdProcess(SubSeq(s, i + 1, c - 1), 1, <<>>))
                        rep == IF content = <<>> THEN <<"\n", "\n">>
                               ELSE <<"\n", "\n">> \o HeadingHashes(a) \o <<" ">>
                                        \o content \o <<"\n", "\n">>
                    IN  TdProcess(s, c + 1, TdJoin(StripTrailingBlanks(out), rep))
               [] a = "<blockquote>" ->
                    LET c == CloseOf(s, "</blockquote>", i)
                        content == StripNewlines(
                                       TdProcess(SubSeq(s, i + 1, c - 1), 1, <<>>))
                        rep == IF content = <<>> THEN <<"\n", "\n">>
                               ELSE <<"\n", "\n">> \o QuoteLines(content)
                                        \o <<"\n", "\n">>
                    IN  TdProcess(s, c + 1, TdJoin(StripTrailingBlanks(out), rep))
               [] a = "<pre>" ->
                    \* the fenced code block rule: language and literal text
                    LET c == CloseOf(s, "</pre>", i)
                        inner == SubSeq(s, i + 1, c - 1)
                        q == IndexFrom(inner, "\">", 1)
                        lang == IF inner # <<>> /\ inner[1] = "<code class=\"language-"
                                   /\ q > 0
                                THEN SubSeq(inner, 2, q - 1) ELSE <<>>
                        from == IF inner # <<>> /\ inner[1] = "<code>" THEN 2
                                ELSE IF q > 0 THEN q + 1 ELSE 1
                        to == Scan(inner, from, LAMBDA x : x = "</code>")
                        code == [k \in 1..(to - from) |->
                                    TdUnescape(inner[from + k - 1])]
                        rep == <<"\n", "\n", Fence>> \o lang \o <<"\n">> \o code
                                   \o <<"\n", Fence, "\n", "\n">>
                    IN  TdProcess(s, c + 1, TdJoin(StripTrailingBlanks(out), rep))
               [] a = "<code>" ->
                    \* inline code; a blank element has no replacement
                    LET c == CloseOf(s, "</code>", i)
                        content == SubSeq(s, i + 1, c - 1)
                    IN  TdProcess(s, c + 1,
                                  IF Trim(content) = <<>> THEN out
                                  ELSE TdJoin(out, <<Tick>> \o content \o <<Tick>>))
               [] a = "<strong>" ->
                    LET c == CloseOf(s, "</strong>", i)
                        content == Trim(TdProcess(SubSeq(s, i + 1, c - 1), 1, <<>>))
                    IN  TdProcess(s, c + 1,
                                  IF content = <<>> THEN out
                                  ELSE TdJoin(out, <<"**">> \o content \o <<"**">>))
               [] IsBr(a) ->
                    TdProcess(s, i + 1, TdJoin(out, <<" ", " ", "\n">>))
               [] IsWs(a) ->
                    \* white space collapses; none starts a block
                    TdProcess(s, i + 1,
                              IF out = <<>> \/ IsWs(out[Len(out)]) THEN out
                              ELSE out \o <<" ">>)
               [] a \in AcTags \cup AcSelfClosing \cup RiTags \cup RiSelfClosing
                        \cup {"</a>", "</code>", "</pre>", "</strong>",
                              "</blockquote>", "</h1>", "</h2>", "</h3>",
                              "<td>", "</td>"} ->
                    \* an element without a rule keeps its content only; a
                    \* stray end tag is dropped
                    TdProcess(s, i + 1, out)
               [] OTHER ->
                    TdProcess(s, i + 1, TdJoin(out, <<TdEscape(a)>>))

\* output.replace(/^[\t\r\n]+/, '').replace(/[\t\r\n\s]+$/, '')
TdTrim(s) ==
    SubSeq(s, Scan(s, 1, LAMBDA c : c \notin {"\t", "\n"}),
              ScanBack(s, Len(s), LAMBDA c : ~IsWs(c)))

turndown(html) ==
    IF html = <<>> THEN <<>> ELSE TdTrim(TdProcess(html, 1, <<>>))

(***************************************************************************)
(* The pages of the model.                                                 *)
(***************************************************************************)

\* the longest body, in fragments
MaxFrags == 2

Paragraph == <<"<p>", "a", "</p>">>

BlankParagraph == <<"<p>", " ", "</p>">>

ChildPagesH2 == <<"<h2>", "Child", " ", "Pages", "</h2>">>

LineBreak == <<"<br>">>

TocMacro == <<MOpen("toc"), MClose>>

CodeMacroNoBody == <<MOpen("code"), MClose>>

JiraKeyMacro == <<MOpen("jira"), POpen("key"), "PROJ-123", PClose, MClose>>

JiraQueryMacro == <<MOpen("jira"), POpen("jqlQuery"), "q", PClose, MClose>>

OpenChildrenMacro == <<MOpen("children")>>

\* a code macro without a language parameter
CodeMacro ==
    <<MOpen("code"), PtbOpen, CdataOpen, "x", "<", "y", CdataClose, PtbClose,
      MClose>>

Frags ==
    {Paragraph, BlankParagraph, ChildPagesH2, LineBreak, TocMacro,
     CodeMacroNoBody, JiraKeyMacro, JiraQueryMacro, OpenChildrenMacro,
     CodeMacro}

RECURSIVE BodiesOf(_)
\* the bodies of at most n fragments
BodiesOf(n) ==
    IF n = 0 THEN {<<>>}
    ELSE LET B == BodiesOf(n - 1)
         IN  B \cup {f \o b : f \in Frags, b \in B}

Bodies == BodiesOf(MaxFrags)

Titles ==
    {<<"Test", " ", "Page">>,
     <<"Page", " ", "with", " ", "\"", "quotes", "\"">>}

LabelLists == {<<>>, <<<<"docs">>, <<"api">>>>}

ChildOne == [id |-> <<"111">>, title |-> <<"Child", " ", "One">>]

ChildTwo == [id |-> <<"222">>, title |-> <<"Child", " ", "Two">>]

ChildLists == {<<>>, <<ChildTwo, ChildOne>>}

Pages ==
    [id : {<<"12345">>},
     title : Titles,
     body : Bodies,
     spaceKey : {<<"TEST">>},
     version : {1},
     ancestors : {<<>>},
     children : ChildLists,
     labels : LabelLists,
     url : {<<"https://wiki.example.com/pages/12345">>}]

(***************************************************************************)
(* The converter: constructor and convert.                                 *)
(***************************************************************************)

\* an optional boolean of ConvertOptions: {} when the caller omits it
OptionalBoolean == {{}, {TRUE}, {FALSE}}

\* opt ?? true
OrTrue(opt) == IF opt = {} THEN TRUE ELSE CHOOSE b \in opt : TRUE

\* this.options as the constructor sets it
Construct(given) ==
    [frontMatter |-> OrTrue(given.frontMatter),
     includeChildren |-> OrTrue(given.includeChildren),
     convertMacros |-> OrTrue(given.convertMacros)]

\* the array had addRule appended to it
addConfluenceRulesPushed ==
    <<"confluenceStatus", "confluenceUserMention", "confluenceEmoticon",
      "confluencePageLink", "confluenceImage", "confluenceToc">>

\* the custom rules in the order turndown tests them: Rules.add puts each
\* new rule in front of those added before it
addConfluenceRules ==
    <<"confluenceToc", "confluenceImage", "confluencePageLink",
      "confluenceEmoticon", "confluenceUserMention", "confluenceStatus">>

CollectWarningsKept(earlier, found) == earlier \o found

\* const warnings: string[] = []; warnings.push(...found): the array of a
\* call starts empty, whatever the array of the call before holds
CollectWarnings(earlier, found) == found

MacroStageAlways(ran, body) == preprocessMacros(body)

\* if (this.options.convertMacros) { preprocessMacros; push the warnings }
MacroStage(ran, body) ==
    IF ran THEN preprocessMacros(body) ELSE [html |-> body, warnings |-> <<>>]

\* markdown = this.postProcess(markdown)
AfterTurndown(macroResult, cleaned, turned) ==
    [macros |-> macroResult.html,
     found |-> macroResult.warnings,
     threw |-> \E i \in DOMAIN macroResult.html :
                   macroResult.html[i] = TypeError,
     cleaned |-> cleaned,
     turned |-> turned,
     processed |-> postProcess(turned)]

\* let markdown = this.turndown.turndown(html)
AfterClean(macroResult, cleaned) ==
    AfterTurndown(macroResult, cleaned, turndown(cleaned))

\* html = this.cleanHtml(html)
AfterMacros(macroResult) == AfterClean(macroResult, cleanHtml(macroResult.html))

\* the statements of convert that read the body alone: the macro stage,
\* cleanHtml, turndown, postProcess.  threw: a replacement callback of the
\* macro stage raised the TypeError, which leaves convert uncaught.
BodyStages(body, ran) == AfterMacros(MacroStage(ran, body))

\* BodyStages of every body of the model, computed once
BodyTable == [b \in Bodies |-> [ran \in BOOLEAN |-> BodyStages(b, ran)]]

\* the front-matter statement followed by a second run of postProcess
WithFrontMatterProcessed(opts, page, markdown) ==
    IF opts.frontMatter THEN postProcess(addFrontMatter(page) \o markdown)
    ELSE markdown

\* if (this.options.frontMatter) markdown = addFrontMatter(page) + markdown
WithFrontMatter(opts, page, markdown) ==
    IF opts.frontMatter THEN addFrontMatter(page) \o markdown ELSE markdown

WithChildrenWhatever(opts, page, markdown) ==
    IF Len(page.children) > 0
    THEN markdown \o buildChildrenSection(page.children)
    ELSE markdown

\* if (this.options.includeChildren && page.children.length > 0)
\*     markdown += buildChildrenSection(page.children)
WithChildren(opts, page, markdown) ==
    IF opts.includeChildren /\ Len(page.children) > 0
    THEN markdown \o buildChildrenSection(page.children)
    ELSE markdown

FinishUntrimmed(markdown) == markdown \o <<"\n">>

\* markdown = markdown.trim() + "\n"
Finish(markdown) == Trim(markdown) \o <<"\n">>

\* the return statement
Returned(page, b, fronted, assembled, collected) ==
    [threw |-> b.threw,
     macros |-> b.macros,
     cleaned |-> b.cleaned,
     turned |-> b.turned,
     processed |-> b.processed,
     fronted |-> fronted,
     assembled |-> assembled,
     result |-> [markdown |-> Finish(assembled),
                 title |-> page.title,
                 pageId |-> page.id,
                 warnings |-> collected]]

\* the children statement, then the return
Assembled(opts, page, b, fronted, collected) ==
    Returned(page, b, fronted, WithChildren(opts, page, fronted), collected)

\* the front-matter statement, then the rest
Fronted(opts, earlier, page, b) ==
    Assembled(opts, page, b, WithFrontMatter(opts, page, b.processed),
              CollectWarnings(earlier, b.found))

\* the values convert computes, one field per statement
convert(opts, earlier, page) ==
    Fronted(opts, earlier, page, BodyTable[page.body][opts.convertMacros])

(***************************************************************************)
(* One converter instance and its caller.                                  *)
(***************************************************************************)
VARIABLES
    options,    \* this.options
    rules,      \* the custom rules of this.turndown
    pc,         \* "idle"; "returned" while the caller holds a result;
                \* "threw" after an exception left convert
    page,       \* the argument of the call
    stages,     \* the locals html and markdown after each statement
    result,     \* the ConversionResult returned
    held,       \* the warnings array of the call before, while the caller
                \* still holds it
    arg,        \* the argument of a function that is called on its own
    ret,        \* what that function returned
    walk        \* the tree command: the calls of collect that have not
                \* returned, the pages fetched, the files written

vars == <<options, rules, pc, page, stages, result, held, arg, ret, walk>>

NoPage ==
    [id |-> <<>>, title |-> <<>>, body |-> <<>>, spaceKey |-> <<>>,
     version |-> 1, ancestors |-> <<>>, children |-> <<>>, labels |-> <<>>,
     url |-> <<>>]

NoStages ==
    [macros |-> <<>>, cleaned |-> <<>>, turned |-> <<>>, processed |-> <<>>,
     fronted |-> <<>>, assembled |-> <<>>]

NoResult ==
    [markdown |-> <<>>, title |-> <<>>, pageId |-> <<>>, warnings |-> <<>>]

\* the tree command before it runs: no call of collect, const pages = [],
\* nothing requested, nothing written, nothing reported
NoWalk ==
    [stack |-> <<>>, pages |-> <<>>, fetches |-> <<>>, outstanding |-> 0,
     files |-> <<>>, next |-> 1, errors |-> <<>>, reported |-> <<>>]

Init ==
    /\ \E given \in [frontMatter : OptionalBoolean,
                     includeChildren : OptionalBoolean,
                     convertMacros : OptionalBoolean] :
           options = Construct(given)
    /\ rules = addConfluenceRules
    /\ pc = "idle"
    /\ page = NoPage
    /\ stages = NoStages
    /\ result = NoResult
    /\ held = <<>>
    /\ arg = <<>>
    /\ ret = <<>>
    /\ walk = NoWalk

\* how a call that computed c ends: the exception leaves convert, or the
\* result is returned
Ends(c) ==
    IF c.threw
    THEN /\ pc' = "threw"
         /\ stages' = NoStages
         /\ result' = NoResult
    ELSE /\ pc' = "returned"
         /\ stages' = [macros |-> c.macros, cleaned |-> c.cleaned,
                       turned |-> c.turned, processed |-> c.processed,
                       fronted |-> c.fronted, assembled |-> c.assembled]
         /\ result' = c.result

\* converter.convert(p)
Convert(p) ==
    /\ pc = "idle"
    /\ Ends(convert(options, held, p))
    /\ page' = p
    /\ UNCHANGED <<options, rules, held, arg, ret, walk>>

\* the convert command: the caller writes result.markdown out, prints the
\* warnings and lets go of the result
Deliver ==
    /\ pc = "returned"
    /\ pc' = "idle"
    /\ page' = NoPage
    /\ stages' = NoStages
    /\ result' = NoResult
    /\ held' = <<>>
    /\ UNCHANGED <<options, rules, arg, ret, walk>>

Next ==
    \/ \E p \in Pages : Convert(p)
    \/ Deliver

Spec == Init /\ [][Next]_vars

(***************************************************************************)
(* The tree command: one converter instance converts page after page, and  *)
(* the warnings array of the page before is still alive when the next      *)
(* call starts.                                                            *)
(***************************************************************************)

\* the longest body of a page of the tree, in fragments
MaxTreeFrags == 1

TreePages == {p \in Pages : p.body \in BodiesOf(MaxTreeFrags)}

\* the loop body after convert returned: the file is written, the
\* warnings are added to the count, the loop goes on to the next page
NextPage ==
    /\ pc = "returned"
    /\ pc' = "idle"
    /\ page' = NoPage
    /\ stages' = NoStages
    /\ result' = NoResult
    /\ held' = result.warnings
    /\ UNCHANGED <<options, rules, arg, ret, walk>>

TreeNext ==
    \/ \E p \in TreePages : Convert(p)
    \/ NextPage

TreeSpec == Init /\ [][TreeNext]_vars

(***************************************************************************)
(* Functions called on their own.  The converter is as its constructor     *)
(* left it; arg is drawn from the inputs of the function, and the one      *)
(* step applies the function to it.                                        *)
(***************************************************************************)

\* a converter on which convert is not running
Quiet ==
    /\ options = Construct([frontMatter |-> {}, includeChildren |-> {},
                            convertMacros |-> {}])
    /\ rules = addConfluenceRules
    /\ pc = "idle"
    /\ page = NoPage
    /\ stages = NoStages
    /\ result = NoResult
    /\ held = <<>>
    /\ walk = NoWalk

\* the call returns r
Returns(r) ==
    /\ pc = "idle"
    /\ pc' = "done"
    /\ ret' = r
    /\ UNCHANGED <<options, rules, page, stages, result, held, arg, walk>>

(***************************************************************************)
(* preprocessMacros on bodies of macros with and without their body        *)
(* section, and of vendor tags.  "<a" and "c:link>" are the two halves of  *)
(* a tag that another tag splits: the text of SplitAcTag is                *)
(* <a<ri:user ri:userkey="u1">c:link>.                                     *)
(***************************************************************************)

\* the longest body, in fragments
MaxMacroFrags == 2

NoformatNoBody == <<MOpen("noformat"), MClose>>

InfoNoBody == <<MOpen("info"), MClose>>

TipNoBody == <<MOpen("tip"), MClose>>

ExpandNoBody == <<MOpen("expand"), MClose>>

InfoTitleOnly == <<MOpen("info"), POpen("title"), "T", PClose, MClose>>

InfoMacro == <<MOpen("INFO"), RtbOpen, "<p>", "a", "</p>", RtbClose, MClose>>

LinkTag == <<"<ac:link>", "<ri:page ri:content-title=\"Home\"/>", "</ac:link>">>

EmoticonTag == <<"<ac:emoticon ac:name=\"smile\"/>">>

SplitAcTag == <<"<a", "<ri:user ri:userkey=\"u1\">", "c:link>">>

MacroFrags ==
    {CodeMacroNoBody, NoformatNoBody, InfoNoBody, TipNoBody, ExpandNoBody,
     InfoTitleOnly, InfoMacro, CodeMacro, TocMacro, LinkTag, EmoticonTag,
     SplitAcTag, Paragraph}

RECURSIVE MacroBodiesOf(_)
MacroBodiesOf(n) ==
    IF n = 0 THEN {<<>>}
    ELSE LET B == MacroBodiesOf(n - 1)
         IN  B \cup {f \o b : f \in MacroFrags, b \in B}

MacroInit ==
    /\ Quiet
    /\ arg \in MacroBodiesOf(MaxMacroFrags)
    /\ ret = [html |-> <<>>, warnings |-> <<>>]

\* this.preprocessMacros(html)
Preprocess == Returns(preprocessMacros(arg))

MacroNext == Preprocess

MacroSpec == MacroInit /\ [][MacroNext]_vars

(***************************************************************************)
(* sanitizeFilename, on titles of one character per atom.  The titles are  *)
(* short ones and ones that reach the length cap: a run of "a" and a tail  *)
(* of at most MaxTail characters.                                          *)
(***************************************************************************)

\* .substring(0, 100)
LengthCap == 100

\* the longest tail of a title, in characters
MaxTail == 3

TailChars == {"a", "B", "-", " ", "/"}

RECURSIVE TailsOf(_)
TailsOf(n) ==
    IF n = 0 THEN {<<>>}
    ELSE LET T == TailsOf(n - 1)
         IN  T \cup {<<c>> \o t : c \in TailChars, t \in T}

FileTitles ==
    {[i \in 1..k |-> "a"] \o t :
        k \in {0} \cup ((LengthCap - MaxTail)..LengthCap), t \in TailsOf(MaxTail)}

\* .replace(/[<>:"/\\|?*]/g, '')
Disallowed == {"<", ">", ":", "\"", "/", "\\", "|", "?", "*"}

RemoveDisallowed(title) == SelectSeq(title, LAMBDA c : c \notin Disallowed)

\* the characters of s that are not marked as dropped
Kept(s) == SelectSeq(s, LAMBDA c : c # "")

\* .replace(/\s+/g, '-'): the first character of a run of white space
\* becomes the hyphen and the rest of the run is dropped
Hyphenate(s) ==
    Kept([i \in DOMAIN s |->
             IF ~IsWs(s[i]) THEN s[i]
             ELSE IF i > 1 /\ IsWs(s[i - 1]) THEN "" ELSE "-"])

\* .replace(/--+/g, '-'): a hyphen that follows a hyphen is dropped
CollapseHyphens(s) ==
    Kept([i \in DOMAIN s |->
             IF s[i] = "-" /\ i > 1 /\ s[i - 1] = "-" THEN "" ELSE s[i]])

\* .replace(/^-|-$/g, ''): one hyphen at the start, then one at the end of
\* what is left to scan
TrimHyphens(s) ==
    LET a == IF s # <<>> /\ s[1] = "-" THEN Tail(s) ELSE s
    IN  IF a # <<>> /\ a[Len(a)] = "-" THEN SubSeq(a, 1, Len(a) - 1) ELSE a

\* .toLowerCase()
LowerChar(c) == IF c = "B" THEN "b" ELSE IF c = "A" THEN "a" ELSE c

toLowerCase(s) == [i \in DOMAIN s |-> LowerChar(s[i])]

\* .substring(0, n)
substring0(s, n) == SubSeq(s, 1, IF Len(s) < n THEN Len(s) ELSE n)

sanitizeFilename(title) ==
    substring0(
        toLowerCase(TrimHyphens(
            CollapseHyphens(Hyphenate(RemoveDisallowed(title))))),
        LengthCap)

FileInit ==
    /\ Quiet
    /\ arg \in FileTitles
    /\ ret = [stem |-> <<>>, filename |-> <<>>]

\* filename: sanitizeFilename(page.title) + '.md'
Sanitize ==
    Returns([stem |-> sanitizeFilename(arg),
             filename |-> sanitizeFilename(arg) \o <<".md">>])

FileNext == Sanitize

FileSpec == FileInit /\ [][FileNext]_vars

(***************************************************************************)
(* ConfluenceClient.getPage and testConnection.  The HTTP request is the   *)
(* environment: it resolves with a response whose data is a page or null, or it rejects    *)
(* with an AxiosError (with or without a response), with another Error,    *)
(* or with a value that is no Error.  An error is its class, its message   *)
(* and, for an AxiosError, error.response.                                 *)
(***************************************************************************)

\* new Error(message)
NewError(message) ==
    [class |-> "Error", message |-> message, hasResponse |-> FALSE,
     status |-> 0, dataMessage |-> <<>>]

\* an AxiosError with error.response = {status, data: {message}}
HttpError(status, dataMessage) ==
    [class |-> "AxiosError", message |-> <<"Request failed">>,
     hasResponse |-> TRUE, status |-> status, dataMessage |-> dataMessage]

\* an AxiosError of a request that got no response
NetworkError ==
    [class |-> "AxiosError", message |-> <<"timeout of 30000ms exceeded">>,
     hasResponse |-> FALSE, status |-> 0, dataMessage |-> <<>>]

\* throw "boom": a value that is not an instance of Error
ThrownString ==
    [class |-> "string", message |-> <<"boom">>, hasResponse |-> FALSE,
     status |-> 0, dataMessage |-> <<>>]

Statuses == {400, 401, 403, 404, 500, 503}

RequestErrors ==
    {HttpError(s, m) : s \in Statuses, m \in {<<>>, <<"Not Found">>}}
        \cup {NetworkError, NewError(<<"Network error">>), ThrownString}

NoError == NewError(<<>>)

NoData == [id |-> "", title |-> <<>>, hasBody |-> FALSE, value |-> <<>>]

\* what this.http.get comes to
Responses ==
    {[ok |-> TRUE, hasData |-> TRUE, error |-> NoError,
      data |-> [id |-> "12345", title |-> <<"Test", " ", "Page">>,
                hasBody |-> b, value |-> Paragraph]] : b \in BOOLEAN}
        \cup {[ok |-> TRUE, hasData |-> FALSE, error |-> NoError, data |-> NoData]}
        \cup {[ok |-> FALSE, hasData |-> FALSE, error |-> e, data |-> NoData] :
                 e \in RequestErrors}

PageIds == {"", "12345", "99999"}

\* data.id, data.title, body?.storage?.value || ""
mapResponse(data) ==
    [id |-> data.id, title |-> data.title,
     body |-> IF data.hasBody THEN data.value ELSE <<>>]

\* reading data.body of a null response body
NullDataError ==
    [class |-> "TypeError",
     message |-> <<"Cannot read properties of null (reading 'body')">>,
     hasResponse |-> FALSE, status |-> 0, dataMessage |-> <<>>]

\* error.response?.status in a template literal
StatusText(error) ==
    IF error.hasResponse THEN ToString(error.status) ELSE "undefined"

\* error.response?.data?.message || error.message
Detail(error) ==
    IF error.dataMessage # <<>> THEN error.dataMessage ELSE error.message

\* wrapError with the 403 branch left out
wrapErrorNo403(error, pageId) ==
    IF error.class = "AxiosError"
    THEN IF error.hasResponse /\ error.status = 401
         THEN NewError(<<"Authentication failed", ". Check your credentials. (">>
                           \o Detail(error) \o <<")">>)
         ELSE IF error.hasResponse /\ error.status = 404
         THEN IF pageId # ""
              THEN NewError(<<"Page ", pageId, " not found",
                              ". Verify the page ID exists.">>)
              ELSE NewError(<<"Resource not found", ". (">>
                                \o Detail(error) \o <<")">>)
         ELSE NewError(<<"Confluence API error (HTTP ", StatusText(error), ")",
                         ": ">> \o Detail(error))
    ELSE IF error.class \in {"Error", "TypeError"} THEN error
    ELSE NewError(error.message)

wrapError(error, pageId) ==
    IF error.class = "AxiosError"
    THEN IF error.hasResponse /\ error.status = 401
         THEN NewError(<<"Authentication failed", ". Check your credentials. (">>
                           \o Detail(error) \o <<")">>)
         ELSE IF error.hasResponse /\ error.status = 403
         THEN NewError(<<"Access denied">>
                           \o (IF pageId # "" THEN <<" for page ", pageId>>
                               ELSE <<>>)
                           \o <<". Check permissions. (">>
                           \o Detail(error) \o <<")">>)
         ELSE IF error.hasResponse /\ error.status = 404
         THEN IF pageId # ""
              THEN NewError(<<"Page ", pageId, " not found",
                              ". Verify the page ID exists.">>)
              ELSE NewError(<<"Resource not found", ". (">>
                                \o Detail(error) \o <<")">>)
         ELSE NewError(<<"Confluence API error (HTTP ", StatusText(error), ")",
                         ": ">> \o Detail(error))
    ELSE IF error.class \in {"Error", "TypeError"} THEN error
    ELSE NewError(error.message)

\* the promise of an async method is fulfilled with v
Resolved(v) == [rejected |-> FALSE, error |-> NoError, value |-> v]

\* the promise of an async method is rejected with e
Rejected(e) == [rejected |-> TRUE, error |-> e, value |-> "none"]

getPage(pageId, response) ==
    IF ~response.ok THEN Rejected(wrapError(response.error, pageId))
    ELSE IF ~response.hasData THEN Rejected(wrapError(NullDataError, pageId))
    ELSE Resolved(mapResponse(response.data))

\* testConnection with a catch block that throws the error again
testConnectionRethrows(response) ==
    IF response.ok THEN Resolved(TRUE) ELSE Rejected(response.error)

testConnection(response) ==
    IF response.ok THEN Resolved(TRUE) ELSE Resolved(FALSE)

ClientInit ==
    /\ Quiet
    /\ arg \in [method : {"getPage"}, pageId : PageIds, response : Responses]
                \cup [method : {"testConnection"}, pageId : {""},
                      response : Responses]
    /\ ret = Resolved("none")

\* await client.getPage(pageId)
GetPage ==
    /\ arg.method = "getPage"
    /\ Returns(getPage(arg.pageId, arg.response))

\* await client.testConnection()
TestConnection ==
    /\ arg.method = "testConnection"
    /\ Returns(testConnection(arg.response))

ClientNext == GetPage \/ TestConnection

ClientSpec == ClientInit /\ [][ClientNext]_vars

(***************************************************************************)
(* The custom rules on one element.  turndown keeps its rules in an array  *)
(* that addRule extends at the front (Rules.add is array.unshift), and     *)
(* Rules.forNode gives a blank element to the blank rule, then takes the   *)
(* first rule of the array whose filter accepts the element, the custom    *)
(* rules standing before the rules turndown is built with.  An element is  *)
(* its nodeName, its classes, the attributes the filters and replacements  *)
(* read, and its text; no anchor of the model has an href.                 *)
(***************************************************************************)

MarkerClasses == {"status-macro", "confluence-userlink", "emoticon", "toc-macro"}

Texts == {<<>>, <<"John", " ", "Doe">>, <<" ", "John", " ">>}

\* elements with content, and images, which are void
Nodes ==
    [nodeName : {"SPAN", "A", "DIV"}, classes : SUBSET MarkerClasses,
     hasUsername : BOOLEAN, username : {"jdoe"},
     resourceType : {"none", "page", "attachment"}, text : Texts,
     alt : {""}, fallback : {""}, src : {""}]
      \cup
    [nodeName : {"IMG"}, classes : SUBSET MarkerClasses,
     hasUsername : BOOLEAN, username : {"jdoe"},
     resourceType : {"none", "page", "attachment"}, text : {<<>>},
     alt : {"", "smile"}, fallback : {":)"}, src : {"a.png"}]

\* the filter of a custom rule
Filter(rule, node) ==
    CASE rule = "confluenceStatus" ->
             node.nodeName = "SPAN" /\ "status-macro" \in node.classes
      [] rule = "confluenceUserMention" ->
             /\ node.nodeName = "A"
             /\ "confluence-userlink" \in node.classes \/ node.hasUsername
      [] rule = "confluenceEmoticon" ->
             node.nodeName = "IMG" /\ "emoticon" \in node.classes
      [] rule = "confluencePageLink" ->
             node.nodeName = "A" /\ node.resourceType = "page"
      [] rule = "confluenceImage" ->
             node.nodeName = "IMG" /\ node.resourceType = "attachment"
      [] rule = "confluenceToc" ->
             node.nodeName = "DIV" /\ "toc-macro" \in node.classes

\* x || y on strings of atoms
OrElse(x, y) == IF x # <<>> THEN x ELSE y

\* getAttribute(name) || y
AttrOrElse(x, y) == IF x # "" THEN <<x>> ELSE y

\* a replacement that prefers the data-username attribute
userMentionByUsername(node) ==
    <<"@">> \o (IF node.hasUsername THEN <<node.username>>
                ELSE OrElse(Trim(node.text), <<"user">>))

\* `@${node.textContent?.trim() || "user"}`
userMention(node) == <<"@">> \o OrElse(Trim(node.text), <<"user">>)

\* the replacement of a rule, custom or built in, for content and node
Replacement(rule, content, node) ==
    CASE rule = "confluenceStatus" ->
             <<Tick>> \o OrElse(Trim(node.text), <<"STATUS">>) \o <<Tick>>
      [] rule = "confluenceUserMention" -> userMention(node)
      [] rule = "confluenceEmoticon" ->
             AttrOrElse(node.alt, AttrOrElse(node.fallback, <<>>))
      [] rule = "confluencePageLink" -> <<"[">> \o content \o <<"]">>
      [] rule = "confluenceImage" ->
             <<"![">> \o AttrOrElse(node.alt, <<"image">>) \o <<"](">>
                 \o AttrOrElse(node.src, <<>>) \o <<")">>
      [] rule = "confluenceToc" ->
             <<"<!-- Table of Contents was here -->", "\n", "\n">>
      [] rule = "blank" ->
             IF node.nodeName = "DIV" THEN <<"\n", "\n">> ELSE <<>>
      [] rule = "image" ->
             IF node.src = "" THEN <<>>
             ELSE <<"![", node.alt, "](", node.src, ")">>
      [] rule = "default" ->
             IF node.nodeName = "DIV"
             THEN <<"\n", "\n">> \o content \o <<"\n", "\n">>
             ELSE content

\* node.isBlank: not void, not an anchor, and nothing but white space in it
isBlank(node) ==
    node.nodeName \notin {"IMG", "A"} /\ \A i \in DOMAIN node.text : IsWs(node.text[i])

\* findRule: the position of the first rule of the array that accepts
\* the node, or 0
findRule(array, node) ==
    LET hits == {i \in DOMAIN array : Filter(array[i], node)}
    IN  IF hits = {} THEN 0
        ELSE CHOOSE i \in hits : \A j \in hits : i <= j

\* the rule the position stands for; after the custom rules the rules
\* turndown is built with: image for an img, and for an element none of
\* them accepts the default rule
RuleAt(array, at, node) ==
    IF isBlank(node) THEN "blank"
    ELSE IF at > 0 THEN array[at]
    ELSE IF node.nodeName = "IMG" THEN "image"
    ELSE "default"

\* Rules.forNode
forNode(array, node) == RuleAt(array, findRule(array, node), node)

\* replacementForNode: the content is trimmed where white space flanks it
Replaced(rule, node) ==
    [rule |-> rule, replacement |-> Replacement(rule, Trim(node.text), node)]

replacementForNode(array, node) == Replaced(forNode(array, node), node)

RuleInit ==
    /\ Quiet
    /\ arg \in Nodes
    /\ ret = [rule |-> "none", replacement |-> <<>>]

\* turndown's process comes to the element
ReplaceNode == Returns(replacementForNode(rules, arg))

RuleNext == ReplaceNode

RuleSpec == RuleInit /\ [][RuleNext]_vars

(***************************************************************************)
(* postProcess on the texts turndown can hand it, one character per atom:  *)
(* the lines of a page and of its code blocks, made of "#", a blank and a  *)
(* letter.                                                                 *)
(***************************************************************************)

\* the longest text, in characters
MaxText == 6

TextChars == {"#", " ", "a", "\n"}

RECURSIVE TextsOf(_)
TextsOf(n) ==
    IF n = 0 THEN {<<>>}
    ELSE LET T == TextsOf(n - 1)
         IN  T \cup {<<c>> \o t : c \in TextChars, t \in T}

PostInit ==
    /\ Quiet
    /\ arg \in TextsOf(MaxText)
    /\ ret = <<>>

\* markdown = this.postProcess(markdown)
PostProcess == Returns(postProcess(arg))

PostNext == PostProcess

PostSpec == PostInit /\ [][PostNext]_vars

(***************************************************************************)
(* preprocessMacros on one code or noformat macro with a CDATA body, the   *)
(* body one character per atom.  One more body holds, as text, what a      *)
(* language parameter looks like.                                          *)
(***************************************************************************)

\* the longest body, in characters
MaxCode == 4

CodeChars == {"&", "<", "l", "t", ";"}

RECURSIVE CodeTextsOf(_)
CodeTextsOf(n) ==
    IF n = 0 THEN {<<>>}
    ELSE LET T == CodeTextsOf(n - 1)
         IN  T \cup {<<c>> \o t : c \in CodeChars, t \in T}

ParameterAsText == <<POpen("language"), "x", PClose>>

CodeBodies == CodeTextsOf(MaxCode) \cup {<<">">>, ParameterAsText}

\* the language parameter of the macro, when it has one
LanguageValues == {<<"js">>, <<" ", "js", " ">>}

\* the storage format of the macro
MacroHtml(name, hasLang, lang, body) ==
    <<MOpen(name)>>
        \o (IF hasLang THEN <<POpen("language")>> \o lang \o <<PClose>> ELSE <<>>)
        \o <<PtbOpen, CdataOpen>> \o body \o <<CdataClose, PtbClose, MClose>>

CodeMacros ==
    {[name |-> n, hasLang |-> FALSE, lang |-> <<>>, body |-> b,
      html |-> MacroHtml(n, FALSE, <<>>, b)] :
        n \in {"code", "noformat"}, b \in CodeBodies}
      \cup
    {[name |-> "code", hasLang |-> TRUE, lang |-> l, body |-> b,
      html |-> MacroHtml("code", TRUE, l, b)] :
        l \in LanguageValues, b \in CodeBodies}

CodeInit ==
    /\ Quiet
    /\ arg \in CodeMacros
    /\ ret = [html |-> <<>>, warnings |-> <<>>]

\* this.preprocessMacros(html) on the macro
PreprocessCode == Returns(preprocessMacros(arg.html))

CodeNext == PreprocessCode

CodeSpec == CodeInit /\ [][CodeNext]_vars

(***************************************************************************)
(* The tree command: getPageTree, then the loop that converts each page    *)
(* and writes its file.  The site is the environment: for each page id     *)
(* the ids of the children that getPage reports, in the order it reports   *)
(* them; nothing keeps a site from listing a page under two parents or     *)
(* under its own descendant.  A call of collect is a frame of walk.stack,  *)
(* the innermost call last: "call" before its getPage is issued, "await"   *)
(* while the request is out, "loop" while it iterates over the children.   *)
(***************************************************************************)

\* the greatest depth option
MaxDepth == 2

SiteIds == {"1", "2", "3"}

\* page.children of a page, as ids
ChildIdLists == {<<>>, <<"2">>, <<"3">>, <<"2", "3">>, <<"3", "2">>, <<"1">>}

Sites == [SiteIds -> ChildIdLists]

\* the titles of the three pages, one character per atom
SiteTitles ==
    {[i \in SiteIds |->
         CASE i = "1" -> <<"B">> [] i = "2" -> <<"A", "/", "B">>
           [] OTHER -> <<"A", "B">>],
     [i \in SiteIds |->
         CASE i = "1" -> <<"B">> [] i = "2" -> <<"A", " ", " ", "B">>
           [] OTHER -> <<"a">>]}

\* what getPage resolves with for the page id of the site
SitePage(a, id) ==
    [id |-> <<id>>, title |-> a.titles[id], body |-> Paragraph,
     spaceKey |-> <<"TEST">>, version |-> 1, ancestors |-> <<>>,
     children |-> [k \in DOMAIN a.site[id] |->
                      [id |-> <<a.site[id][k]>>,
                       title |-> a.titles[a.site[id][k]]]],
     labels |-> <<>>,
     url |-> <<"https://wiki.example.com/pages/", id>>]

\* what a request of the walk can fail with
FetchErrors == {HttpError(404, <<>>), NetworkError}

\* the characters of the model that /[^a-zA-Z0-9_\- ]/ lets through
NameChars == {"A", "B", "a", "b", "_", "-", " "}

\* page.title.replace(/[^a-zA-Z0-9_\- ]/g, "").replace(/\s+/g, "-")
\*     .toLowerCase()
safeName(title) ==
    toLowerCase(Hyphenate(SelectSeq(title, LAMBDA c : c \in NameChars)))

\* collect(id, currentDepth) has been called
CollectCall(id, level) ==
    [id |-> id, level |-> level, phase |-> "call", k |-> 1, children |-> <<>>]

\* the innermost call of collect
Top == walk.stack[Len(walk.stack)]

\* the innermost call returns; when it is the outermost too, getPageTree
\* resolves and the command goes on to its loop
ReturnFrom(w) ==
    /\ walk' = [w EXCEPT !.stack = SubSeq(@, 1, Len(@) - 1)]
    /\ pc' = IF Len(w.stack) = 1 THEN "writing" ELSE "walking"

WithinDepthInclusive(currentDepth, depth) == currentDepth <= depth

WithinDepthUnlimited(currentDepth, depth) == TRUE

\* if (currentDepth < depth)
WithinDepth(currentDepth, depth) == currentDepth < depth

WalkInit ==
    /\ Quiet
    /\ arg \in [site : Sites, titles : SiteTitles, root : {"1"},
                depth : 0..MaxDepth]
    /\ ret = <<>>

\* const pages = await client.getPageTree(opts.pageId, depth):
\* collect(pageId, 0) is called
StartTree ==
    /\ pc = "idle"
    /\ pc' = "walking"
    /\ walk' = [walk EXCEPT !.stack = <<CollectCall(arg.root, 0)>>]
    /\ UNCHANGED <<options, rules, page, stages, result, held, arg, ret>>

\* const page = await this.getPage(id): the request goes out
IssueFetch ==
    /\ pc = "walking"
    /\ Top.phase = "call"
    /\ walk' = [walk EXCEPT !.stack[Len(walk.stack)].phase = "await",
                            !.fetches = Append(@, [id |-> Top.id,
                                                   level |-> Top.level]),
                            !.outstanding = @ + 1]
    /\ UNCHANGED <<options, rules, pc, page, stages, result, held, arg, ret>>

\* the request resolves: pages.push(page); if (currentDepth < depth) the
\* loop over page.children starts, else the call returns
FetchOk ==
    /\ pc = "walking"
    /\ Top.phase = "await"
    /\ IF WithinDepth(Top.level, arg.depth)
       THEN /\ walk' = [walk EXCEPT
                           !.outstanding = @ - 1,
                           !.pages = Append(@, SitePage(arg, Top.id)),
                           !.stack[Len(walk.stack)].phase = "loop",
                           !.stack[Len(walk.stack)].children = arg.site[Top.id]]
            /\ pc' = pc
       ELSE ReturnFrom([walk EXCEPT
                           !.outstanding = @ - 1,
                           !.pages = Append(@, SitePage(arg, Top.id))])
    /\ UNCHANGED <<options, rules, page, stages, result, held, arg, ret>>

FetchFailsSkipped(e) ==
    /\ pc = "walking"
    /\ Top.phase = "await"
    /\ ReturnFrom([walk EXCEPT !.outstanding = @ - 1,
                               !.errors = Append(@, wrapError(e, Top.id))])
    /\ UNCHANGED <<options, rules, page, stages, result, held, arg, ret>>

\* the request rejects: getPage throws wrapError(error, id), the throw
\* leaves every call of collect and getPageTree, and the catch block of
\* the command prints the message and exits
FetchFails(e) ==
    /\ pc = "walking"
    /\ Top.phase = "await"
    /\ walk' = [walk EXCEPT !.outstanding = @ - 1,
                            !.stack = <<>>,
                            !.errors = Append(@, wrapError(e, Top.id))]
    /\ pc' = "failed"
    /\ UNCHANGED <<options, rules, page, stages, result, held, arg, ret>>

\* for (const child of page.children) await collect(child.id, currentDepth + 1)
Descend ==
    /\ pc = "walking"
    /\ Top.phase = "loop"
    /\ Top.k <= Len(Top.children)
    /\ walk' = [walk EXCEPT
                   !.stack = [@ EXCEPT ![Len(@)].k = Top.k + 1]
                                 \o <<CollectCall(Top.children[Top.k],
                                                  Top.level + 1)>>]
    /\ UNCHANGED <<options, rules, pc, page, stages, result, held, arg, ret>>

\* the loop over the children is over
EndLoop ==
    /\ pc = "walking"
    /\ Top.phase = "loop"
    /\ Top.k > Len(Top.children)
    /\ ReturnFrom(walk)
    /\ UNCHANGED <<options, rules, page, stages, result, held, arg, ret>>

\* the file of one page: safeName.md under the output directory, holding
\* result.markdown
FileOf(pg, converted) ==
    [name |-> safeName(pg.title) \o <<".md">>, id |-> pg.id,
     markdown |-> converted.result.markdown]

\* one turn of for (const page of pages): convert, writeFileSync
WriteFile ==
    /\ pc = "writing"
    /\ walk.next <= Len(walk.pages)
    /\ walk' = [walk EXCEPT
                   !.files = Append(@, FileOf(walk.pages[walk.next],
                                              convert(options, <<>>,
                                                      walk.pages[walk.next]))),
                   !.next = @ + 1]
    /\ UNCHANGED <<options, rules, pc, page, stages, result, held, arg, ret>>

\* console.error(`Done. ${pages.length} file(s) written to ${outDir}`)
FinishTree ==
    /\ pc = "writing"
    /\ walk.next > Len(walk.pages)
    /\ walk' = [walk EXCEPT !.reported = <<Len(walk.pages)>>]
    /\ pc' = "done"
    /\ UNCHANGED <<options, rules, page, stages, result, held, arg, ret>>

WalkNext ==
    \/ StartTree
    \/ IssueFetch
    \/ FetchOk
    \/ \E e \in FetchErrors : FetchFails(e)
    \/ Descend
    \/ EndLoop
    \/ WriteFile
    \/ FinishTree

WalkSpec == WalkInit /\ [][WalkNext]_vars

\* every request comes back and every continuation is run
WalkLive == WalkSpec /\ WF_vars(WalkNext)

(***************************************************************************)
(* preprocessMacros on a body of two macro instances with text around      *)
(* them.  Every instance is opened and closed and holds no other macro.    *)
(***************************************************************************)

ExpandMacro ==
    <<MOpen("expand"), POpen("title"), "T", PClose, RtbOpen, "b", RtbClose,
      MClose>>

\* the macro instances of a framed body
FramedMacros ==
    {CodeMacro, CodeMacroNoBody, NoformatNoBody, InfoMacro, InfoTitleOnly,
     ExpandMacro, JiraKeyMacro, JiraQueryMacro, TocMacro}

\* the text before, between and after the instances
FrameTexts == {<<>>, <<"a">>, Paragraph}

\* the body: lead, first instance, text between, second instance, tail
Framed(a) == a.lead \o a.first \o a.between \o a.second \o a.tail

FrameInit ==
    /\ Quiet
    /\ arg \in [lead : FrameTexts, first : FramedMacros,
                between : FrameTexts, second : FramedMacros,
                tail : {<<>>, <<"z">>}]
    /\ ret = [html |-> <<>>, warnings |-> <<>>]

\* this.preprocessMacros(html)
PreprocessFramed == Returns(preprocessMacros(Framed(arg)))

FrameNext == PreprocessFramed

FrameSpec == FrameInit /\ [][FrameNext]_vars

(***************************************************************************)
(* postProcess on Markdown that holds a fenced code block, as the fenced   *)
(* code rule of the engine writes it: a line of three backticks, the       *)
(* lines of the code, a line of three backticks.                           *)
(***************************************************************************)

\* the greatest length of the code of a fenced block
MaxFenced == 4

\* what precedes the opening fence
BeforeFence == {<<>>, <<"a", "\n", "\n">>}

\* the Markdown text of a fenced block with the code a.code
FencedText(a) == a.before \o <<Fence, "\n">> \o a.code \o <<"\n", Fence, "\n">>

FenceInit ==
    /\ Quiet
    /\ arg \in [before : BeforeFence, code : TextsOf(MaxFenced)]
    /\ ret = <<>>

\* markdown = this.postProcess(markdown)
PostProcessFenced == Returns(postProcess(FencedText(arg)))

FenceNext == PostProcessFenced

FenceSpec == FenceInit /\ [][FenceNext]_vars

(***************************************************************************)
(* The API router: POST /convert.  arg.body is req.body as express.json    *)
(* parsed it, arg.response is what the request to Confluence comes to;     *)
(* ret is the list of the responses sent, walk.fetches the requests made.  *)
(* A field of the body is the empty set when the body does not have it.    *)
(***************************************************************************)

\* a string field of the body: absent, empty, or given
ApiField(v) == {{}, {""}, {v}}

NoOptions == [frontMatter |-> {}, includeChildren |-> {}, convertMacros |-> {}]

\* body.options: absent, null, {} or {frontMatter: false}
ApiOptions ==
    {[kind |-> "undefined", value |-> NoOptions],
     [kind |-> "null", value |-> NoOptions],
     [kind |-> "object", value |-> NoOptions],
     [kind |-> "object", value |-> [NoOptions EXCEPT !.frontMatter = {FALSE}]]}

ApiBodies ==
    [pageId : ApiField("12345"), baseUrl : ApiField("https://wiki.example.com"),
     username : ApiField("user"), apiToken : ApiField("token"),
     options : ApiOptions]

MissingFieldUndefined(body) ==
    \E f \in {body.pageId, body.baseUrl, body.username, body.apiToken} :
        f = {}

\* !body.pageId || !body.baseUrl || !body.username || !body.apiToken
MissingField(body) ==
    \E f \in {body.pageId, body.baseUrl, body.username, body.apiToken} :
        f \in {{}, {""}}

\* the value of a field that is given
Given(field) == CHOOSE v \in field : TRUE

\* mapResponse for data without space, children, metadata and _links
ApiPage(baseUrl, data) ==
    [id |-> <<data.id>>, title |-> data.title, body |-> mapResponse(data).body,
     spaceKey |-> <<>>, version |-> 1, ancestors |-> <<>>, children |-> <<>>,
     labels |-> <<>>,
     url |-> <<baseUrl, "/pages/viewpage.action?pageId=", data.id>>]

\* reading options.frontMatter of null in the constructor
NullOptionsError ==
    [class |-> "TypeError",
     message |-> <<"Cannot read properties of null (reading 'frontMatter')">>,
     hasResponse |-> FALSE, status |-> 0, dataMessage |-> <<>>]

\* res.status(status).json({ error })
ErrorResponse(status, message) ==
    [status |-> status, success |-> FALSE, error |-> message,
     title |-> <<>>, pageId |-> <<>>, markdown |-> <<>>, warnings |-> <<>>]

\* res.json({ success: true, title, pageId, markdown, warnings })
OkResponse(r) ==
    [status |-> 200, success |-> TRUE, error |-> <<>>,
     title |-> r.title, pageId |-> r.pageId, markdown |-> r.markdown,
     warnings |-> r.warnings]

MissingFieldsMessage ==
    <<"Missing required fields: pageId, baseUrl, username, apiToken">>

ApiInit ==
    /\ Quiet
    /\ arg \in [body : ApiBodies, response : Responses]
    /\ ret = <<>>

\* the request arrives with a field missing: res.status(400).json, return
ApiRejects ==
    /\ pc = "idle"
    /\ MissingField(arg.body)
    /\ ret' = Append(ret, ErrorResponse(400, MissingFieldsMessage))
    /\ pc' = "done"
    /\ UNCHANGED <<options, rules, page, stages, result, held, arg, walk>>

\* the request arrives with its fields and the options null: the
\* constructor of the converter throws, the catch block answers
ApiConstructFails ==
    /\ pc = "idle"
    /\ ~MissingField(arg.body)
    /\ arg.body.options.kind = "null"
    /\ ret' = Append(ret, ErrorResponse(500, NullOptionsError.message))
    /\ pc' = "done"
    /\ UNCHANGED <<options, rules, page, stages, result, held, arg, walk>>

\* the request arrives with its fields: the client and the converter are
\* made, and client.getPage(body.pageId) sends its request
ApiFetches ==
    /\ pc = "idle"
    /\ ~MissingField(arg.body)
    /\ arg.body.options.kind # "null"
    /\ options' = Construct(arg.body.options.value)
    /\ walk' = [walk EXCEPT
                   !.fetches = Append(@, [id |-> Given(arg.body.pageId),
                                          level |-> 0]),
                   !.outstanding = @ + 1]
    /\ pc' = "fetching"
    /\ UNCHANGED <<rules, page, stages, result, held, arg, ret>>

\* getPage rejects: the catch block answers 500 with the message
ApiFetchFails(fetched) ==
    /\ pc = "fetching"
    /\ fetched.rejected
    /\ walk' = [walk EXCEPT !.outstanding = @ - 1]
    /\ ret' = Append(ret, ErrorResponse(500, fetched.error.message))
    /\ pc' = "done"
    /\ UNCHANGED <<options, rules, page, stages, result, held, arg>>

\* what the handler sends after convert
Answer(c) ==
    IF c.threw THEN ErrorResponse(500, <<TypeError>>) ELSE OkResponse(c.result)

\* getPage resolves: converter.convert(page), res.json
ApiConverts(fetched, p, c) ==
    /\ pc = "fetching"
    /\ ~fetched.rejected
    /\ walk' = [walk EXCEPT !.outstanding = @ - 1]
    /\ page' = p
    /\ result' = IF c.threw THEN result ELSE c.result
    /\ ret' = Append(ret, Answer(c))
    /\ pc' = "done"
    /\ UNCHANGED <<options, rules, stages, held, arg>>

\* what client.getPage(body.pageId) comes to
ApiFetched == getPage(Given(arg.body.pageId), arg.response)

\* the page the handler converts
ApiFetchedPage == ApiPage(Given(arg.body.baseUrl), arg.response.data)

ApiNext ==
    \/ ApiRejects
    \/ ApiConstructFails
    \/ ApiFetches
    \/ ApiFetchFails(ApiFetched)
    \/ ApiConverts(ApiFetched, ApiFetchedPage,
                   convert(options, <<>>, ApiFetchedPage))

ApiSpec == ApiInit /\ [][ApiNext]_vars

\* the request to Confluence comes back (its timeout is 30 s) and the
\* handler's continuation is run
ApiLive == ApiSpec /\ WF_vars(ApiNext)

(***************************************************************************)
(* Properties of convert.  Each is stated over the state in which convert  *)
(* has returned: page is the argument, stages the intermediate texts,      *)
(* result the value returned.                                              *)
(***************************************************************************)

\* every atom of the text is white space
AllWs(s) == \A i \in DOMAIN s : IsWs(s[i])

\* the number of atoms of the text that satisfy Is
Count(s, Is(_)) == Cardinality({i \in DOMAIN s : Is(s[i])})

\* the children section is appended by this call
SectionAppended == options.includeChildren /\ page.children # <<>>

\* C1 as the specification states it: for every page and every option
\* combination the returned markdown matches /[^\n]\n$/, that is, it ends
\* with one newline that a character other than a newline precedes.
EndsWithNewlineAfterText ==
    pc = "returned" =>
        LET m == result.markdown
        IN  /\ Len(m) >= 2
            /\ m[Len(m)] = "\n"
            /\ m[Len(m) - 1] # "\n"

\* C1, amended: the returned markdown always ends with a newline.  When the
\* assembled text (front matter, converted body, children section) holds a
\* character that is not white space, the character before that newline is
\* not white space; when it holds none, which needs frontMatter off and no
\* children section, the markdown is the lone newline.
EndsWithNewlineOrIsNewline ==
    pc = "returned" =>
        LET m == result.markdown
        IN  /\ Len(m) >= 1
            /\ m[Len(m)] = "\n"
            /\ IF AllWs(stages.assembled)
               THEN /\ m = <<"\n">>
                    /\ ~options.frontMatter
                    /\ ~SectionAppended
               ELSE /\ Len(m) >= 2
                    /\ ~IsWs(m[Len(m) - 1])

\* a page whose body is not empty converts to the lone newline
LoneNewlineReturned ==
    /\ pc = "returned"
    /\ page.body = BlankParagraph \o TocMacro
    /\ options.convertMacros
    /\ result.markdown = <<"\n">>

\* C2: for every page and every option combination the returned markdown
\* never contains three or more consecutive newlines.
NoThreeNewlines ==
    pc = "returned" => ~Contains(result.markdown, <<"\n", "\n", "\n">>)

\* C3: with frontMatter false the returned markdown never begins with the
\* line "---" and a newline; with frontMatter true or omitted it always
\* does, and the lines title, page_id, space follow in that order.
FrontMatterToggle ==
    pc = "returned" =>
        LET m == result.markdown
            opens == StartsWith(m, Dashes \o <<"\n">>)
        IN  IF ~options.frontMatter THEN ~opens
            ELSE LET t == PairFrom(m, "\n", "title", 1)
                     p == IF t = 0 THEN 0 ELSE PairFrom(m, "\n", "page_id", t + 1)
                     k == IF p = 0 THEN 0 ELSE PairFrom(m, "\n", "space", p + 1)
                 IN  opens /\ k # 0

\* C4 as the specification states it: "## Child Pages" appears in the
\* returned markdown if and only if includeChildren is true or omitted and
\* the child list is not empty, whatever the body contains.
HeadingIffSection ==
    pc = "returned" =>
        (Contains(result.markdown, ChildPagesHeading) <=> SectionAppended)

\* C4, amended: "## Child Pages" appears in the returned markdown if and
\* only if includeChildren is true or omitted and the child list is not
\* empty, or the text that convert assembled before the children section,
\* front matter and converted body, already holds it.
HeadingFromSectionOrBody ==
    pc = "returned" =>
        (Contains(result.markdown, ChildPagesHeading)
            <=> (SectionAppended \/ Contains(stages.fronted, ChildPagesHeading)))

\* the heading comes from the body of a page that has children while
\* includeChildren is false
HeadingFromBodyAlone ==
    /\ pc = "returned"
    /\ ~options.includeChildren
    /\ page.children # <<>>
    /\ Contains(result.markdown, ChildPagesHeading)

\* the names the macro stage has a rule for
RecognizedNames ==
    {"code", "noformat", "info", "note", "warning", "tip", "expand", "jira",
     "anchor"}

IsOpen(a) == a \in MacroOpenAtoms

IsClose(a) == a = MClose

\* the opening tag at i has its closing tag: a closing tag follows it with
\* as many opening as closing tags in between
Closed(s, i) ==
    \E j \in (i + 1)..Len(s) :
        /\ IsClose(s[j])
        /\ Count(SubSeq(s, i + 1, j - 1), IsOpen)
               = Count(SubSeq(s, i + 1, j - 1), IsClose)

\* the macro instances of the text, in document order: the indices of the
\* opening tags that have their closing tag
Instances(s) ==
    SelectSeq([i \in DOMAIN s |-> i], LAMBDA i : IsOpen(s[i]) /\ Closed(s, i))

\* the names of the macro instances of the text that satisfy Is, in
\* document order
InstanceNames(s, Is(_)) ==
    LET at == SelectSeq(Instances(s), LAMBDA i : Is(NameOf(s[i])))
    IN  [n \in DOMAIN at |-> NameOf(s[at[n]])]

\* the names the placeholder comments of the text carry, in document order
PlaceholderNames(s) ==
    LET at == SelectSeq([i \in DOMAIN s |-> i],
                        LAMBDA i : /\ s[i] = "<!-- Unsupported Confluence macro: "
                                   /\ i + 2 <= Len(s)
                                   /\ s[i + 2] = " -->")
    IN  [n \in DOMAIN at |-> s[at[n] + 1]]

\* C5: with convertMacros on, the warnings of the result are exactly one
\* entry per macro instance whose name is none of the recognized names, in
\* document order, each "Unsupported macro removed: <name>", and each such
\* instance is replaced by a comment that names the macro.
OneWarningPerUnsupported ==
    (pc = "returned" /\ options.convertMacros) =>
        LET names == InstanceNames(page.body,
                                   LAMBDA n : LowerName(n) \notin RecognizedNames)
        IN  /\ result.warnings =
                   [n \in DOMAIN names |-> "Unsupported macro removed: " \o names[n]]
            /\ PlaceholderNames(stages.macros) = names

\* an atom that opens the target HTML of a recognized macro
IsTarget(a) ==
    a \in {"<pre>", "<blockquote>", "<details>", "<a id=\""}

\* the <code> elements of the text that no <pre> wraps: the targets of jira
InlineCodes(s) ==
    Cardinality({i \in DOMAIN s : s[i] = "<code>" /\ (i = 1 \/ s[i - 1] # "<pre>")})

\* C6: with convertMacros on, every macro instance of the body is consumed:
\* none is left in the output of the macro stage, and each has one of two
\* outcomes, its target HTML or a placeholder comment with a warning.
EveryMacroConsumed ==
    (pc = "returned" /\ options.convertMacros) =>
        LET out == stages.macros
            placeholders == Len(PlaceholderNames(out))
        IN  /\ \A i \in DOMAIN out : ~IsOpen(out[i])
            /\ placeholders = Len(result.warnings)
            /\ Len(Instances(page.body))
                   = Count(out, IsTarget) + InlineCodes(out) + placeholders

\* C7: a converter instance keeps no state between calls.  Every step
\* leaves the options and the rule set as they are, and every call returns
\* what a freshly constructed converter with the same options returns for
\* that page alone, so the warnings of the page before are not in it.
NoStateBetweenCalls ==
    [][/\ options' = options
       /\ rules' = rules
       /\ rules' = addConfluenceRules
       /\ pc' = "returned" =>
              result' = convert(options, <<>>, page').result]_vars

\* a call whose result has no warnings, on an instance whose call before
\* recorded some
CleanResultAfterWarnings ==
    /\ pc = "returned"
    /\ held # <<>>
    /\ result.warnings = <<>>

\* a warning of the macro stage
IsWarning(w) == \E n \in MacroNames : w = "Unsupported macro removed: " \o n

\* C8: convert never fails on content grounds.  No call ends in an
\* exception: every call returns a result that carries the page's title
\* and id, a markdown text, and warnings that are all macro warnings; the
\* markdown is the assembled text whether or not there are warnings.
NeverFailsOnContent ==
    /\ pc # "threw"
    /\ pc = "returned" =>
           /\ result.title = page.title
           /\ result.pageId = page.id
           /\ result.markdown = Trim(stages.assembled) \o <<"\n">>
           /\ \A i \in DOMAIN result.warnings : IsWarning(result.warnings[i])

\* a body with a code macro that has no language and an unsupported macro:
\* a result with a warning and the markdown of the code block beside it
WarningsBesideMarkdown ==
    /\ pc = "returned"
    /\ page.body = CodeMacro \o TocMacro
    /\ Len(result.warnings) = 1
    /\ Contains(result.markdown, <<Fence, "\n", "x", "<", "y", "\n", Fence>>)

\* C9: with convertMacros false the macro stage does not run: cleanHtml
\* receives the page body as it is, and the result has no warnings,
\* whatever macros the body holds.
MacroStageSkipped ==
    (pc = "returned" /\ ~options.convertMacros) =>
        /\ stages.macros = page.body
        /\ stages.cleaned = cleanHtml(page.body)
        /\ result.warnings = <<>>

\* a body with an unsupported macro converted with convertMacros false
UnsupportedMacroPassedThrough ==
    /\ pc = "returned"
    /\ ~options.convertMacros
    /\ page.body = Paragraph \o TocMacro
    /\ result.warnings = <<>>

RECURSIVE Backslashed(_)
\* the title with a backslash before each double quote
Backslashed(t) ==
    IF t = <<>> THEN <<>>
    ELSE (IF Head(t) = "\"" THEN <<"\\", "\"">> ELSE <<Head(t)>>)
             \o Backslashed(Tail(t))

RECURSIVE QuotedList(_)
\* "l1", "l2", ... for a list of labels that is not empty
QuotedList(ls) ==
    IF Len(ls) = 1 THEN <<"\"">> \o ls[1] \o <<"\"">>
    ELSE <<"\"">> \o ls[1] \o <<"\"", ",", " ">> \o QuotedList(Tail(ls))

\* the front-matter block as the specification words it, line by line
FrontMatterBlock(p) ==
    <<"-", "-", "-", "\n">>
        \o <<"title", ":", " ", "\"">> \o Backslashed(p.title) \o <<"\"", "\n">>
        \o <<"page_id", ":", " ", "\"">> \o p.id \o <<"\"", "\n">>
        \o <<"space", ":", " ", "\"">> \o p.spaceKey \o <<"\"", "\n">>
        \o (IF p.labels = <<>> THEN <<>>
            ELSE <<"labels", ":", " ", "[">> \o QuotedList(p.labels)
                     \o <<"]", "\n">>)
        \o <<"source", ":", " ", "\"">> \o p.url \o <<"\"", "\n">>
        \o <<"-", "-", "-", "\n">>

\* C10: with frontMatter on, the returned markdown begins with the block
\* ---, title with each double quote of the title backslashed, page_id,
\* space, the labels line if and only if the page has labels, source, ---,
\* these lines in this order and no others.
FrontMatterExact ==
    (pc = "returned" /\ options.frontMatter) =>
        StartsWith(result.markdown, FrontMatterBlock(page))

\* front matter of a page whose title has double quotes and that has labels
QuotedTitleAndLabels ==
    /\ pc = "returned"
    /\ options.frontMatter
    /\ Contains(page.title, <<"\"">>)
    /\ Len(page.labels) = 2
    /\ Contains(result.markdown, <<"\\", "\"", "quotes", "\\", "\"", "\"", "\n">>)

\* C11 as the specification states it: with frontMatter on and a body that
\* converts to text, two blank lines stand between the closing "---" of
\* the front matter and the body content.
TwoBlankLinesAfterFrontMatter ==
    (pc = "returned" /\ options.frontMatter /\ ~AllWs(stages.processed)) =>
        LET m == result.markdown
            n == Len(FrontMatterBlock(page))
        IN  /\ StartsWith(m, FrontMatterBlock(page) \o <<"\n", "\n">>)
            /\ m[n + 3] # "\n"

\* C11, amended: with frontMatter on and a body that converts to text, the
\* closing "---" line is followed by one empty line and then by the
\* post-processed body as it is; when that body begins with a character
\* other than a newline, exactly one blank line stands between the two.
OneBlankLineAfterFrontMatter ==
    (pc = "returned" /\ options.frontMatter /\ ~AllWs(stages.processed)) =>
        LET m == result.markdown
            n == Len(FrontMatterBlock(page))
        IN  /\ stages.fronted
                   = FrontMatterBlock(page) \o <<"\n">> \o stages.processed
            /\ StartsWith(m, FrontMatterBlock(page)
                                 \o <<"\n", stages.processed[1]>>)
            /\ stages.processed[1] # "\n" => m[n + 2] # "\n"

\* front matter, one blank line, then the paragraph of the body
ParagraphAfterOneBlankLine ==
    /\ pc = "returned"
    /\ options.frontMatter
    /\ page.body = Paragraph
    /\ Contains(result.markdown, <<"-", "-", "-", "\n", "\n", "a", "\n">>)

RECURSIVE ChildItems(_)
\* one line "- <title> (ID: <id>)" per child, in the order of the list
ChildItems(children) ==
    IF children = <<>> THEN <<>>
    ELSE <<"-", " ">> \o Head(children).title \o <<" ", "(ID:", " ">>
             \o Head(children).id \o <<")", "\n">> \o ChildItems(Tail(children))

\* the children section as the specification words it
ChildrenSection(children) ==
    <<"-", "-", "-", "\n", "\n", "#", "#", " ", "Child", " ", "Pages", "\n",
      "\n">> \o ChildItems(children)

\* C12: with includeChildren on and n >= 1 children, the markdown ends
\* with a horizontal rule, the "## Child Pages" heading and exactly n list
\* items, the i-th "- <title_i> (ID: <id_i>)" for the i-th child.  The rule
\* opens the markdown or follows an empty line.
ChildrenSectionEndsOutput ==
    (pc = "returned" /\ SectionAppended) =>
        LET m == result.markdown
            section == ChildrenSection(page.children)
        IN  /\ EndsWith(m, section)
            /\ m = section \/ EndsWith(m, <<"\n", "\n">> \o section)
            /\ Count(section, LAMBDA a : a = "(ID:") = Len(page.children)

\* a page with two children, converted with includeChildren on
TwoChildrenListed ==
    /\ pc = "returned"
    /\ options.includeChildren
    /\ page.children = <<ChildTwo, ChildOne>>
    /\ page.body = Paragraph
    /\ EndsWith(result.markdown,
                <<"-", " ", "Child", " ", "Two", " ", "(ID:", " ", "222", ")",
                  "\n", "-", " ", "Child", " ", "One", " ", "(ID:", " ", "111",
                  ")", "\n">>)

\* the body is made of recognized macros that have nothing between their
\* opening and their closing tag, and of at least one
BareRecognized(s) ==
    /\ s # <<>>
    /\ Len(s) % 2 = 0
    /\ \A i \in DOMAIN s :
           IF i % 2 = 1
           THEN IsOpen(s[i]) /\ LowerName(NameOf(s[i])) \in RecognizedNames
           ELSE IsClose(s[i])

\* the wrapper element of a kind of macro, with empty content
EmptyWrapper(name) ==
    CASE name = "code" -> <<"<pre>", "<code class=\"language-", "\">",
                            "</code>", "</pre>">>
      [] name = "noformat" -> <<"<pre>", "<code>", "</code>", "</pre>">>
      [] name = "expand" -> <<"<details>", "<summary>", "Details",
                              "</summary>", "</details>">>
      [] name = "info" -> <<"<blockquote>", "<p>", "<strong>", "[i]", " ",
                            "INFO:", "</strong>", "</p>", "</blockquote>">>
      [] name = "tip" -> <<"<blockquote>", "<p>", "<strong>", "[*]", " ",
                           "TIP:", "</strong>", "</p>", "</blockquote>">>

\* C13: a recognized macro without a body section is replaced by the
\* wrapper element of its kind with empty content: the macro stage returns
\* one empty wrapper per macro, in order, and no warning.
EmptyMacroKeepsWrapper ==
    (pc = "done" /\ BareRecognized(arg)) =>
        /\ ret.warnings = <<>>
        /\ ret.html = Flatten([n \in 1..(Len(arg) \div 2) |->
                                  EmptyWrapper(LowerName(NameOf(arg[2 * n - 1])))])

\* the text holds a tag of the ac: or ri: namespace, in one atom or in the
\* two halves of the split tag
HasVendorTag(s) ==
    \E i \in DOMAIN s :
        \/ s[i] \in AcTags \cup AcSelfClosing \cup RiTags \cup RiSelfClosing
        \/ i < Len(s) /\ s[i] = "<a" /\ s[i + 1] = "c:link>"

\* C14: for every body, the HTML the macro stage returns holds no tag of
\* the ac: namespace and none of the ri: namespace, opening, closing or
\* self-closing.
NoVendorTagLeft == pc = "done" => ~HasVendorTag(ret.html)

\* C15: for every title, the stem of the file name (what stands before
\* ".md") is lower-case, holds no disallowed character and no white space,
\* has no two adjacent hyphens, neither begins nor ends with a hyphen, and
\* is at most 100 characters long.
StemIsClean ==
    pc = "done" =>
        LET s == ret.stem
        IN  /\ ret.filename = s \o <<".md">>
            /\ \A i \in DOMAIN s :
                   /\ s[i] \notin Disallowed
                   /\ ~IsWs(s[i])
                   /\ s[i] \notin {"A", "B"}
                   /\ i < Len(s) => ~(s[i] = "-" /\ s[i + 1] = "-")
            /\ s # <<>> => s[1] # "-" /\ s[Len(s)] # "-"
            /\ Len(s) <= LengthCap

\* the request of the call failed with e
RequestFailedWith(e) == pc = "done" /\ ~arg.response.ok /\ arg.response.error = e

\* getPage has settled
Fetched == pc = "done" /\ arg.method = "getPage"

\* the category text a rejection begins with
BeginsWith(text) == ret.rejected /\ StartsWith(ret.error.message, text)

\* C16 as the specification states it: a failed fetch rejects with
\* "Authentication failed" for 401, "Access denied" for 403, "Page <id> not
\* found" for 404 and "Confluence API error (HTTP <status>)" for any other
\* HTTP status; an error that carries no HTTP status is passed through
\* unchanged.
CategorizedOrUnchanged ==
    (Fetched /\ ~arg.response.ok) =>
        LET e == arg.response.error
        IN  IF e.class = "AxiosError" /\ e.hasResponse
            THEN CASE e.status = 401 -> BeginsWith(<<"Authentication failed">>)
                   [] e.status = 403 -> BeginsWith(<<"Access denied">>)
                   [] e.status = 404 ->
                          BeginsWith(<<"Page ", arg.pageId, " not found">>)
                   [] OTHER ->
                          BeginsWith(<<"Confluence API error (HTTP ",
                                       ToString(e.status), ")">>)
            ELSE ret.rejected /\ ret.error = e

\* C16, amended: a failed fetch always rejects.  An AxiosError gives a new
\* Error that begins with "Authentication failed" for 401, "Access denied"
\* for 403, "Page <id> not found" for 404 with a non-empty id and "Resource
\* not found" with an empty one, and "Confluence API error (HTTP <status>)"
\* for every other AxiosError, <status> being "undefined" when there was no
\* response; another Error is rethrown as it is, and a value that is no
\* Error is wrapped in a new Error of its text.  A response without data
\* rejects too.
CategorizedByWrapError ==
    /\ (Fetched /\ ~arg.response.ok) =>
        LET e == arg.response.error
        IN  /\ ret.rejected
            /\ IF e.class = "AxiosError"
               THEN /\ ret.error.class = "Error"
                    /\ CASE e.hasResponse /\ e.status = 401 ->
                               BeginsWith(<<"Authentication failed">>)
                         [] e.hasResponse /\ e.status = 403 ->
                               BeginsWith(<<"Access denied">>)
                         [] e.hasResponse /\ e.status = 404 ->
                               IF arg.pageId # ""
                               THEN BeginsWith(<<"Page ", arg.pageId, " not found">>)
                               ELSE BeginsWith(<<"Resource not found">>)
                         [] OTHER ->
                               BeginsWith(<<"Confluence API error (HTTP ",
                                            StatusText(e), ")">>)
               ELSE IF e.class = "Error" THEN ret.error = e
               ELSE ret.error = NewError(e.message)
    /\ (Fetched /\ arg.response.ok /\ ~arg.response.hasData) => ret.rejected

NotFoundRejected ==
    /\ Fetched
    /\ RequestFailedWith(HttpError(404, <<"Not Found">>))
    /\ arg.pageId = "99999"
    /\ BeginsWith(<<"Page ", "99999", " not found">>)

\* C17: testConnection resolves to true when its request succeeds and to
\* false when the request fails, whatever the failure; it never rejects.
ConnectionTestNeverRejects ==
    (pc = "done" /\ arg.method = "testConnection") =>
        /\ ~ret.rejected
        /\ ret.value = arg.response.ok

FailedProbeGivesFalse ==
    /\ RequestFailedWith(NewError(<<"Network error">>))
    /\ arg.method = "testConnection"
    /\ ret = Resolved(FALSE)

\* the custom rules in the order the specification lists them, which is the
\* order addConfluenceRules registers them in
ListedOrder ==
    <<"confluenceStatus", "confluenceUserMention", "confluenceEmoticon",
      "confluencePageLink", "confluenceImage", "confluenceToc">>

\* the positions in ListedOrder of the custom rules that accept the node
Accepting(node) == {i \in DOMAIN ListedOrder : Filter(ListedOrder[i], node)}

\* the least and the greatest number of a non-empty set of numbers
Least(S) == CHOOSE i \in S : \A j \in S : i <= j

Greatest(S) == CHOOSE i \in S : \A j \in S : i >= j

\* C18 as the specification states it: the custom rules are tested in the
\* listed order and the first match wins, so an element with content that
\* two custom rules accept is replaced by the rule listed first.
ListedFirstWins ==
    (pc = "done" /\ ~isBlank(arg) /\ Accepting(arg) # {}) =>
        ret.rule = ListedOrder[Least(Accepting(arg))]

\* C18, amended: the custom rules are tested in the reverse of the listed
\* order, table of contents first and status badge last, ahead of the rules
\* turndown is built with but after its blank rule: an element that is not
\* blank and that custom rules accept is replaced by the one listed last
\* among them (the page link rule for an anchor that is a user mention
\* too, the attachment image rule for an image that is an emoticon too);
\* a blank element is replaced by the blank rule, and an element no custom
\* rule accepts by a rule that is not a custom one.
ListedLastWins ==
    pc = "done" =>
        /\ isBlank(arg) => ret.rule = "blank"
        /\ (~isBlank(arg) /\ Accepting(arg) # {}) =>
               ret.rule = ListedOrder[Greatest(Accepting(arg))]
        /\ (~isBlank(arg) /\ Accepting(arg) = {}) =>
               ret.rule \in {"image", "default"}
        /\ (Filter("confluenceUserMention", arg) /\ Filter("confluencePageLink", arg)) =>
               ret.replacement = <<"[">> \o Trim(arg.text) \o <<"]">>
        /\ (Filter("confluenceEmoticon", arg) /\ Filter("confluenceImage", arg)) =>
               ret.rule = "confluenceImage"

MentionRenderedAsPageLink ==
    /\ pc = "done"
    /\ arg.nodeName = "A"
    /\ "confluence-userlink" \in arg.classes
    /\ arg.resourceType = "page"
    /\ arg.text = <<"John", " ", "Doe">>
    /\ ret = [rule |-> "confluencePageLink",
              replacement |-> <<"[", "John", " ", "Doe", "]">>]

\* the element is a user-mention link
IsUserMention(node) ==
    /\ node.nodeName = "A"
    /\ "confluence-userlink" \in node.classes \/ node.hasUsername

\* C19 as the specification states it: a user-mention link is rendered as
\* "@" and its username, or its trimmed text when it has no username, or
\* "user" when it has neither.  Stated for the links the user-mention rule
\* replaces.
MentionShowsUsername ==
    (pc = "done" /\ IsUserMention(arg) /\ ret.rule = "confluenceUserMention") =>
        ret.replacement =
            <<"@">> \o (IF arg.hasUsername THEN <<arg.username>>
                        ELSE IF Trim(arg.text) # <<>> THEN Trim(arg.text)
                        ELSE <<"user">>)

\* C19, amended: a user-mention link that is not a page link as well is
\* rendered as "@" and its trimmed text, or "@user" when the text is empty
\* or white space; the username attribute only marks the link and is never
\* written.
MentionShowsText ==
    (pc = "done" /\ IsUserMention(arg) /\ arg.resourceType # "page") =>
        /\ ret.rule = "confluenceUserMention"
        /\ ret.replacement =
               <<"@">> \o (IF Trim(arg.text) # <<>> THEN Trim(arg.text)
                           ELSE <<"user">>)

UsernameNotWritten ==
    /\ pc = "done"
    /\ arg.nodeName = "A"
    /\ arg.hasUsername
    /\ arg.resourceType = "none"
    /\ arg.text = <<" ", "John", " ">>
    /\ ret.replacement = <<"@", "John">>

\* the lines of a text
RECURSIVE LinesOf(_)
LinesOf(s) ==
    LET e == Scan(s, 1, LAMBDA c : c = "\n")
    IN  IF e > Len(s) THEN <<s>>
        ELSE <<SubSeq(s, 1, e - 1)>> \o LinesOf(SubSeq(s, e + 1, Len(s)))

\* one to six "#", then white space, then text
IsHeadingLine(line) ==
    LET h == Scan(line, 1, LAMBDA c : c # "#") - 1
    IN  /\ h \in 1..6
        /\ h < Len(line)
        /\ IsBlank(line[h + 1])
        /\ \E i \in (h + 2)..Len(line) : ~IsWs(line[i])

\* C20: in the text post-processing returns, every heading line that is
\* not the first line comes right after an empty line, and every heading
\* line that is not the last line comes right before one, whatever the
\* neighbouring lines hold.
BlankLinesAroundHeadings ==
    pc = "done" =>
        LET lines == LinesOf(ret)
        IN  \A k \in DOMAIN lines :
                IsHeadingLine(lines[k]) =>
                    /\ k > 1 => lines[k - 1] = <<>>
                    /\ k < Len(lines) => lines[k + 1] = <<>>

\* the characters of a text: an entity atom and a tag atom spelled out
Spelling(a) ==
    CASE a = "&amp;" -> <<"&", "a", "m", "p", ";">>
      [] a = "&lt;" -> <<"&", "l", "t", ";">>
      [] a = "&gt;" -> <<"&", "g", "t", ";">>
      [] a \in TagsAsText -> <<"<", Inner(a), ">">>
      [] OTHER -> <<a>>

Characters(s) == Flatten([i \in DOMAIN s |-> Spelling(s[i])])

\* an entity of the three read from i: the index after it, or 0
EntityMatch(s, i) ==
    IF s[i] # "&" THEN 0
    ELSE IF i + 4 <= Len(s) /\ SubSeq(s, i, i + 4) = <<"&", "a", "m", "p", ";">>
    THEN i + 5
    ELSE IF i + 3 <= Len(s)
            /\ SubSeq(s, i, i + 3) \in {<<"&", "l", "t", ";">>, <<"&", "g", "t", ";">>}
    THEN i + 4
    ELSE 0

EntityChar(s, i, e) ==
    IF e - i = 5 THEN <<"&">> ELSE IF s[i + 1] = "l" THEN <<"<">> ELSE <<">">>

\* the text with each entity decoded once
Unescaped(s) == ReplaceAll(s, EntityMatch, EntityChar)

\* the start and the end of the element the macro is replaced by
CodeElementStart(m) ==
    IF m.name = "code"
    THEN <<"<pre>", "<code class=\"language-">> \o Trim(m.lang) \o <<"\">">>
    ELSE <<"<pre>", "<code>">>

CodeElementEnd == <<"</code>", "</pre>">>

\* what the element holds between its start and its end
EmittedContent(m, html) ==
    SubSeq(html, Len(CodeElementStart(m)) + 1, Len(html) - Len(CodeElementEnd))

\* C21: a code macro with a CDATA body becomes a pre/code element whose
\* class is "language-" and the trimmed language parameter (nothing when
\* the macro has none), and whose content holds no "<" and no ">" and
\* un-escapes to exactly the body; noformat the same without a class.
CodeBodyRoundTrip ==
    pc = "done" =>
        /\ StartsWith(ret.html, CodeElementStart(arg))
        /\ EndsWith(ret.html, CodeElementEnd)
        /\ Len(ret.html) >= Len(CodeElementStart(arg)) + Len(CodeElementEnd)
        /\ LET content == Characters(EmittedContent(arg, ret.html))
           IN  /\ \A i \in DOMAIN content : content[i] \notin {"<", ">"}
               /\ Unescaped(content) = Characters(arg.body)

\* C22: convert applies its stages in one order: the macro stage (when
\* on), cleanHtml, turndown, postProcess, each on the text the stage before
\* it returned; then the front matter is put before the post-processed
\* body and the children section after it, neither of them post-processed;
\* then the whole is trimmed and a newline added.
StagesInOrder ==
    pc = "returned" =>
        /\ stages.macros = IF options.convertMacros
                           THEN preprocessMacros(page.body).html
                           ELSE page.body
        /\ stages.cleaned = cleanHtml(stages.macros)
        /\ stages.turned = turndown(stages.cleaned)
        /\ stages.processed = postProcess(stages.turned)
        /\ stages.assembled
               = (IF options.frontMatter
                  THEN FrontMatterBlock(page) \o <<"\n">> ELSE <<>>)
                 \o stages.processed
                 \o (IF SectionAppended
                     THEN <<"\n", "\n">> \o ChildrenSection(page.children)
                     ELSE <<>>)
        /\ result.markdown = Trim(stages.assembled) \o <<"\n">>

\* front matter and children section around a body that converts to
\* nothing: the four newlines between them are not collapsed
SectionsNotPostProcessed ==
    /\ pc = "returned"
    /\ options.frontMatter
    /\ SectionAppended
    /\ stages.processed = <<>>
    /\ page.body # <<>>
    /\ Contains(result.markdown,
                <<"-", "-", "-", "\n", "\n", "\n", "\n", "-", "-", "-">>)


(***************************************************************************)
(* Properties of getPageTree and of the tree command.                      *)
(***************************************************************************)

\* the ids of a list of pages
PageIdsOf(pages) == [i \in DOMAIN pages |-> pages[i].id[1]]

\* the pre-order listing of the tree of child links below id, cut after
\* d links
RECURSIVE PreOrder(_, _, _)
PreOrder(site, id, d) ==
    <<id>> \o (IF d = 0 THEN <<>>
               ELSE Flatten([k \in DOMAIN site[id] |->
                                PreOrder(site, site[id][k], d - 1)]))

\* the pages that at most d child links lead to from the set from
RECURSIVE ReachableWithin(_, _, _)
ReachableWithin(site, from, d) ==
    IF d = 0 THEN from
    ELSE ReachableWithin(site,
                         from \cup UNION {{site[p][k] : k \in DOMAIN site[p]}
                                             : p \in from},
                         d - 1)

\* getPageTree has resolved
TreeResolved == pc \in {"writing", "done"}

\* C23: the list getPageTree resolves with is the depth-first pre-order
\* listing of the pages below the root, the root first and siblings in
\* the order of page.children, cut after depth child links; its pages are
\* exactly the pages that at most depth child links lead to, each request
\* was for one page of the list, and no request is ever made for a page
\* more than depth links below the root.
PreOrderWithinDepth ==
    /\ \A i \in DOMAIN walk.fetches : walk.fetches[i].level <= arg.depth
    /\ TreeResolved =>
          /\ PageIdsOf(walk.pages) = PreOrder(arg.site, arg.root, arg.depth)
          /\ walk.pages[1].id = <<arg.root>>
          /\ {walk.pages[i].id[1] : i \in DOMAIN walk.pages}
                = ReachableWithin(arg.site, {arg.root}, arg.depth)
          /\ \A i \in DOMAIN walk.pages :
                walk.pages[i] = SitePage(arg, walk.pages[i].id[1])
          /\ [i \in DOMAIN walk.fetches |-> walk.fetches[i].id]
                = PageIdsOf(walk.pages)
          /\ arg.depth = 0 => PageIdsOf(walk.pages) = <<arg.root>>

\* C23 witness: the root lists page 3 before page 2, page 3 has a child,
\* the depth is 1, and the walk has returned root, 3, 2
SiblingsInOrderCutAtDepth ==
    /\ TreeResolved
    /\ arg.depth = 1
    /\ arg.site["1"] = <<"3", "2">>
    /\ arg.site["3"] = <<"2">>
    /\ PageIdsOf(walk.pages) = <<"1", "3", "2">>


\* C24: on a body of two well-formed macro instances with text before,
\* between and after them, the returned HTML is the text before, the
\* replacement of the first instance, the text between, the replacement
\* of the second instance and the text after, where the replacement of an
\* instance is what the preprocessor makes of that instance alone.
OnlyMacrosChange ==
    pc = "done" =>
        ret.html = arg.lead \o preprocessMacros(arg.first).html
                     \o arg.between \o preprocessMacros(arg.second).html
                     \o arg.tail


\* the numbers of the lines that are a code fence
FenceLines(ls) == {i \in DOMAIN ls : ls[i] = <<Fence>>}

\* the lines between the first code fence and the next one
FencedLines(text) ==
    LET ls == LinesOf(text)
        open == CHOOSE i \in FenceLines(ls) : \A j \in FenceLines(ls) : i <= j
        close == CHOOSE i \in FenceLines(ls) \ {open} :
                     \A j \in FenceLines(ls) \ {open} : i <= j
    IN  IF Cardinality(FenceLines(ls)) < 2 THEN <<>>
        ELSE SubSeq(ls, open + 1, close - 1)

\* C25: after postProcess the lines between the opening and the closing
\* code fence are the lines of the code as they were before it: none
\* inserted, none removed, none changed.
FencedContentUnchanged ==
    pc = "done" => FencedLines(ret) = LinesOf(arg.code)


\* C26: a second postProcess changes nothing: postProcess of a text that
\* postProcess returned is that text.
PostProcessIdempotent ==
    pc = "done" => postProcess(ret) = ret


\* the calls of collect in progress are nested at most depth + 1 deep, the
\* call at position n is for a page n - 1 links below the root, and every
\* request so far was for a page at most depth links below the root
RecursionWithinDepth ==
    /\ Len(walk.stack) <= arg.depth + 1
    /\ \A n \in DOMAIN walk.stack : walk.stack[n].level = n - 1
    /\ \A i \in DOMAIN walk.fetches : walk.fetches[i].level <= arg.depth
    /\ walk.outstanding \in {0, 1}

\* getPageTree has resolved or rejected
TreeSettled == TreeResolved \/ pc = "failed"

\* C27: on every site, sites whose child links form a cycle or lead to one
\* page by two paths included, and for every depth, getPageTree settles
\* when every request comes back; until then the recursion stays within
\* depth levels and every request is for a page at most depth links below
\* the root.
GetPageTreeTerminates ==
    /\ []RecursionWithinDepth
    /\ <>TreeSettled

\* C27 witness: the root is its own child, the depth is 2, and the walk
\* has ended after fetching the root three times
CycleCutByDepth ==
    /\ pc = "done"
    /\ arg.site["1"] = <<"1">>
    /\ arg.depth = MaxDepth
    /\ Len(walk.pages) = MaxDepth + 1
    /\ \A i \in DOMAIN walk.pages : walk.pages[i].id = <<"1">>


\* the request that went out last
LastFetch == walk.fetches[Len(walk.fetches)]

\* a request of the walk has failed
FetchFailed == walk.errors # <<>>

\* nothing has come of the run but the one error
StoppedAtFailure ==
    /\ pc = "failed"
    /\ walk.stack = <<>>
    /\ walk.outstanding = 0
    /\ Len(walk.fetches) = Len(walk.pages) + 1
    /\ Len(walk.errors) = 1
    /\ \E e \in FetchErrors : walk.errors[1] = wrapError(e, LastFetch.id)
    /\ walk.errors[1] \notin FetchErrors
    /\ walk.files = <<>>
    /\ walk.next = 1
    /\ walk.reported = <<>>

\* C28: at most one request of getPageTree is out at any time, each goes
\* out only after the one before it has resolved, and once a request has
\* failed the run has stopped: the one error is what wrapError makes of
\* that request's failure for that request's page id, the pages collected
\* before it are not converted, no file is written, and nothing happens
\* after it, no further request in particular.
OneAtATimeStopAtFailure ==
    /\ [](walk.outstanding <= 1)
    /\ [](walk.outstanding = 1 => Len(walk.fetches) = Len(walk.pages) + 1)
    /\ [](FetchFailed => StoppedAtFailure)
    /\ [][FetchFailed => UNCHANGED vars]_vars

\* C28 witness: two pages were collected, the third request failed with
\* 404, and the run ended with 'Page 3 not found' and no file
FailedAfterTwoPages ==
    /\ pc = "failed"
    /\ PageIdsOf(walk.pages) = <<"1", "2">>
    /\ LastFetch.id = "3"
    /\ walk.errors = <<wrapError(HttpError(404, <<>>), "3")>>
    /\ walk.files = <<>>


\* the names of the files in the output directory after the run
FileNames == {walk.files[i].name : i \in DOMAIN walk.files}

\* C29: after a run that ended with 'Done. N file(s) written' the output
\* directory holds N files of this run, N the number of pages of the
\* tree, and no file was written for one page and then again for another.
OneFilePerPage ==
    pc = "done" =>
        /\ walk.reported = <<Len(walk.pages)>>
        /\ Cardinality(FileNames) = Len(walk.pages)
        /\ \A i, j \in DOMAIN walk.files :
              walk.files[i].name = walk.files[j].name
                 => walk.files[i].id = walk.files[j].id


(***************************************************************************)
(* Properties of POST /convert.                                            *)
(***************************************************************************)

\* pageId, baseUrl, username or apiToken is not in the body or is ''
Incomplete ==
    \/ {} \in {arg.body.pageId, arg.body.baseUrl, arg.body.username,
               arg.body.apiToken}
    \/ {""} \in {arg.body.pageId, arg.body.baseUrl, arg.body.username,
                 arg.body.apiToken}

\* the one response of a handled request
Sent == ret[1]

\* a request to Confluence was made and failed
FetchThrew == walk.fetches # <<>> /\ ApiFetched.rejected

\* the page was fetched and converted, and the response carries the result
Answered200 ==
    /\ Sent.status = 200
    /\ Sent.success
    /\ walk.fetches = <<[id |-> Given(arg.body.pageId), level |-> 0]>>
    /\ page = ApiFetchedPage
    /\ result = convert(options, <<>>, page).result
    /\ Sent.title = result.title
    /\ Sent.pageId = result.pageId
    /\ Sent.markdown = result.markdown
    /\ Sent.warnings = result.warnings

\* the request was refused before anything was fetched or converted
Answered400 ==
    /\ Sent = ErrorResponse(400, MissingFieldsMessage)
    /\ walk.fetches = <<>>
    /\ page = NoPage
    /\ result = NoResult

\* the claim as stated: 400 for a missing field, 500 with the message when
\* the fetch or the conversion threw, 200 with the result in every other case
AnsweredAsStated ==
    pc = "done" =>
        /\ Len(ret) = 1
        /\ IF Incomplete THEN Answered400
           ELSE IF FetchThrew
                THEN Sent = ErrorResponse(500, ApiFetched.error.message)
                ELSE Answered200

\* the cases of a handled request, the converter's constructor included
AnsweredByCase ==
    IF Incomplete THEN Answered400
    ELSE IF arg.body.options.kind = "null"
         THEN /\ Sent = ErrorResponse(500, NullOptionsError.message)
              /\ walk.fetches = <<>>
              /\ result = NoResult
    ELSE IF FetchThrew
         THEN /\ Sent = ErrorResponse(500, ApiFetched.error.message)
              /\ Len(walk.fetches) = 1
              /\ result = NoResult
    ELSE Answered200

\* no response before the handler is through, one response after
OneResponse ==
    /\ pc # "done" => ret = <<>>
    /\ pc = "done" => Len(ret) = 1 /\ AnsweredByCase

\* C30: every request is answered, and answered once: 400 when pageId,
\* baseUrl, username or apiToken is missing or empty, with no fetch and no
\* conversion; 500 with the error's message when making the converter
\* (options null), the fetch or the conversion threw; 200 with success and
\* the result's title, pageId, markdown and warnings in every other case.
EveryRequestAnsweredOnce ==
    /\ []OneResponse
    /\ <>(pc = "done")

\* C30 witness: a request with all four fields and options null was
\* answered 500 with the constructor's message, and nothing was fetched
NullOptionsAnswered500 ==
    /\ pc = "done"
    /\ ~Incomplete
    /\ arg.body.options.kind = "null"
    /\ Sent.status = 500
    /\ walk.fetches = <<>>

====
